---------------------------- MODULE Spec2Model ----------------------------
(***************************************************************************)
(* A model of the twinkle compiler front end (yohashinoio/twkl).           *)
(*                                                                         *)
(* The module holds several sub-models that share one set of variables;    *)
(* each has its own specification and leaves the variables of the others   *)
(* at their idle values:                                                   *)
(*                                                                         *)
(*   SpecStmt      statement lowering and destructor scheduling            *)
(*                 (StmtVisitor, createStatement, createDestructBB) and a  *)
(*                 walk over the control-flow graph that was emitted       *)
(*   SpecTemplate  the registry of instantiated class templates            *)
(*   SpecOrder     operator< of the type ASTs used in registry keys        *)
(*   SpecParse     the parser: grammar rules, expectation failures and     *)
(*                 the error handler                                       *)
(*   SpecExpr      lowering of binary operators                            *)
(*   SpecLower     lowering of one assignment, cast, call or return        *)
(*   SpecMerge     mergeSymbolTables on two symbol tables                  *)
(*   SpecModule    code_generator: lowering of the top-level nodes into    *)
(*                 the module, then emission to files and the JIT          *)
(*   SpecSkip      the skipper of the parser on the characters of a source *)
(*   SpecContext   CGContext: the namespace stack while namespace and      *)
(*                 class items are lowered, and the template registry      *)
(***************************************************************************)
EXTENDS Integers, Sequences, FiniteSets, TLC

VARIABLES
    \* ---- statement lowering (twinkle::codegen, stmt.cpp) ----
    ast,        \* body of the function being lowered (ast::Stmt)
    hashOrder,  \* iteration order of std::unordered_map over the names
    phase,      \* "idle" | "parsed" | "lowered" | "running" | "returned"
    cg,         \* builder state after lowering: blocks, layout, ip, vars
    pc,         \* basic block about to be executed (0: none)
    live,       \* allocas whose object is constructed and not yet destroyed
    leaked,     \* allocas re-initialised while the previous object was live
    dbl,        \* allocas whose destructor ran while no object was live
    via,        \* the branch instruction that led to pc
    \* ---- CreatedClassTemplateTable (codegen.hpp) ----
    created_class_template_table,  \* std::set of <<key, type>> pairs
    typeOwner,  \* typeOwner[t]: the instantiation request type t was made for
    request,    \* the last instantiation request <<name, args, namespace>>
    result,     \* the type the last request was answered with (0: none)
    \* ---- operator< of the type ASTs (ast.hpp) ----
    lhsType,    \* left operand of the comparison
    rhsType,    \* right operand of the comparison
    compared,   \* "no", or [lt |-> lhs < rhs, gt |-> rhs < lhs]
    \* ---- parser (parse.cpp) ----
    source,        \* token sequence of the last parsed source
    total_errors,  \* with_error_handling::total_errors (a static)
    outcome,       \* what the last parse() did
    parsers,       \* number of parser objects constructed so far
    \* ---- binary operators (expr.cpp, codegen.cxx) ----
    binop,      \* the binary operator expression being lowered
    lowered,    \* what lowering it emitted or raised
    operand_values, \* the values the two operands have at run time
    promoted,   \* the casts the implicit conversion created, and the values
                \* they give at run time
    \* ---- assignments, casts, calls, returns (stmt.cpp, expr.cpp, ----
    \* ---- codegen.cxx)                                             ----
    lower_node, \* the AST node being lowered, with what its operands gave
    emitted,    \* what lowering it emitted or raised
    \* ---- mergeSymbolTables (stmt.cpp) ----
    merge_a,    \* the first argument, the parent scope's table
    merge_b,    \* the second argument, the local scope's table
    merged_table, \* whether the call was made, and the table it returned
    \* ---- code_generator (codegen.cxx) ----
    program_ast,    \* the top-level nodes handed to the constructor
    code_generator, \* the object: position of codegen(), module, last call
    \* ---- skipper (parse.cpp) ----
    skip_source,    \* the characters the skipper is applied to
    skipped,        \* whether it was applied, and where its match ended
    \* ---- CGContext: namespace stack and template registry (codegen.hpp) ----
    ns_hierarchy,   \* CGContext::ns_hierarchy, a sequence of Namespace
    ns_frames,      \* the namespace and class items being lowered, each
                    \* with the hierarchy it was entered with
    class_template_table, \* CGContext::class_template_table, a std::map
    registrations,  \* the keys and values handed to the registry so far
    context_call    \* the last operation on the context and what it gave

stmtVars == <<ast, hashOrder, phase, cg, pc, live, leaked, dbl, via>>

templateVars == <<created_class_template_table, typeOwner, request, result>>

orderVars == <<lhsType, rhsType, compared>>

parseVars == <<source, total_errors, outcome, parsers>>

exprVars == <<binop, lowered, operand_values, promoted>>

lowerVars == <<lower_node, emitted>>

\* the variables of the sub-models that follow the first five
mergeVars == <<merge_a, merge_b, merged_table>>

moduleVars == <<program_ast, code_generator>>

skipVars == <<skip_source, skipped>>

contextVars == <<ns_hierarchy, ns_frames, class_template_table,
                 registrations, context_call>>

restVars == <<lowerVars, mergeVars, moduleVars, skipVars, contextVars>>

vars == <<stmtVars, templateVars, orderVars, parseVars, exprVars, restVars>>

-----------------------------------------------------------------------------
(* Bounds *)

\* number of statements of the lowered function body (nodes of the AST
\* below the function's own compound statement)
MaxNodes == 4

\* nesting depth of the type ASTs that are compared
MaxTypeDepth == 1

\* number of class template instantiations that create a type
MaxTypes == 3

\* number of statements in the body of a parsed function
MaxStatements == 3

\* number of parsers constructed in one run of the compiler
MaxParsers == 2

\* number of parameters of a callee and of arguments of a call
MaxArguments == 2

\* top-level nodes of a program
MaxTopLevel == 3

\* calls of member functions on one code_generator
MaxCalls == 2

\* characters of a source given to the skipper
MaxChars == 6

\* namespace and class items nested in each other
MaxDepth == 2

\* templates handed to the registry
MaxTemplates == 2

-----------------------------------------------------------------------------
(* AST: ast::Stmt (a boost::variant), one record shape for every arm *)

VarNames == {"a", "b"}

\* "A": a class with a destructor, "P": a class without one
ClassTypes == {"A", "P"}
ClassesWithDestructor == {"A"}

Node(kind, name, ty, kids) ==
    [kind |-> kind, name |-> name, ty |-> ty, kids |-> kids]

None              == Node("None", "", "", <<>>)      \* empty std::optional
Return            == Node("Return", "", "", <<>>)
Break             == Node("Break", "", "", <<>>)
Continue          == Node("Continue", "", "", <<>>)
ExprStmt          == Node("Expr", "", "", <<>>)
VariableDef(n, t) == Node("VariableDef", n, t, <<>>)
CompoundStatement(q) == Node("CompoundStatement", "", "", q)
If(t, e)          == Node("If", "", "", <<t, e>>)
Loop(b)           == Node("Loop", "", "", <<b>>)
While(b)          == Node("While", "", "", <<b>>)
For(i, b, s)      == Node("For", "", "", <<i, b, s>>)

VariableDefs ==
    { VariableDef("a", "A"), VariableDef("b", "A"),
      VariableDef("b", "P"), VariableDef("a", "i32") }

Leaves == {Return, Break, Continue} \cup VariableDefs

RECURSIVE StmtsOfSize(_), SeqsOfSize(_)

\* the statement sequences with m nodes in total
SeqsOfSize(m) ==
    IF m = 0 THEN {<<>>}
    ELSE UNION { { <<x>> \o r : x \in StmtsOfSize(k), r \in SeqsOfSize(m - k) }
                 : k \in 1..m }

\* the statements with exactly n nodes
StmtsOfSize(n) ==
    IF n = 1 THEN Leaves \cup {CompoundStatement(<<>>)}
    ELSE
        { CompoundStatement(q) : q \in SeqsOfSize(n - 1) }
        \cup { If(t, None) : t \in StmtsOfSize(n - 1) }
        \cup UNION { { If(t, e) : t \in StmtsOfSize(k),
                                  e \in StmtsOfSize(n - 1 - k) }
                     : k \in 1..(n - 2) }
        \cup { Loop(b) : b \in StmtsOfSize(n - 1) }
        \cup { While(b) : b \in StmtsOfSize(n - 1) }
        \cup { For(None, b, None) : b \in StmtsOfSize(n - 1) }
        \cup (IF n >= 3
              THEN { For(i, b, None) : i \in VariableDefs,
                                       b \in StmtsOfSize(n - 2) }
                   \cup { For(None, b, ExprStmt) : b \in StmtsOfSize(n - 2) }
              ELSE {})

\* the function bodies with m statements
FunctionBodies(m) == { CompoundStatement(q) : q \in SeqsOfSize(m) }


-----------------------------------------------------------------------------
(* The LLVM builder: basic blocks, the insert point, the entry-block allocas *)

\* one instruction; a, b are block ids or an alloca id, k names the code
\* site that emitted a branch. The branch of a break or continue has one
\* target, a; the model notes in b the loop it leaves or repeats (the loop's
\* end block)
Instr(op, a, b, k) == [op |-> op, a |-> a, b |-> b, k |-> k]

IsTerminator(i) == i.op \in {"br", "condbr", "ret"}

\* llvm::BasicBlock::getTerminator() of the block bb: non-null or null
getTerminator(ctx, bb) ==
    /\ Len(ctx.blocks[bb]) > 0
    /\ IsTerminator(ctx.blocks[bb][Len(ctx.blocks[bb])])

\* ctx.builder.GetInsertBlock()->getTerminator()
Terminated(ctx) == getTerminator(ctx, ctx.ip)

\* llvm::BasicBlock::Create(ctx.context, name): a block not yet in a function
BasicBlockCreate(ctx) == [ctx EXCEPT !.blocks = Append(@, <<>>)]

\* the k-th block created from the builder state ctx on
NewBB(ctx, k) == Len(ctx.blocks) + k

\* func->getBasicBlockList().push_back(bb)
PushBack(ctx, bb) == [ctx EXCEPT !.layout = Append(@, bb)]

\* llvm::BasicBlock::Create(ctx.context, name, func)
BasicBlockCreateIn(ctx) == PushBack(BasicBlockCreate(ctx), NewBB(ctx, 1))

SetInsertPoint(ctx, bb) == [ctx EXCEPT !.ip = bb]

\* any builder.CreateXxx: the instruction goes to the end of the insert block
Emit(ctx, i) == [ctx EXCEPT !.blocks[ctx.ip] = Append(@, i)]

CreateBr(ctx, bb, site) == Emit(ctx, Instr("br", bb, 0, site))

CreateCondBr(ctx, t, f, site) == Emit(ctx, Instr("condbr", t, f, site))

\* the branch without the test for a terminator
BrAlways(ctx, bb, site) == CreateBr(ctx, bb, site)

\* if (!ctx.builder.GetInsertBlock()->getTerminator())
\*   ctx.builder.CreateBr(bb);
BrUnlessTerminated(ctx, bb, site) ==
    IF ~Terminated(ctx) THEN CreateBr(ctx, bb, site) ELSE ctx

\* createEntryAlloca: a new alloca in the entry block; the model also notes
\* the loop (its end block) the definition is written in
createEntryAlloca(ctx, name, ty, loop) ==
    [ctx EXCEPT !.vars = Append(@, [name |-> name, ty |-> ty, loop |-> loop])]

NewAlloca(ctx) == Len(ctx.vars) + 1

-----------------------------------------------------------------------------
(* Table<Key, T, std::unordered_map<Key, T>>, SymbolTable *)

EmptyTable == [n \in {} |-> 0]

\* an insertion that keeps the value of a key the table holds
insertUnlessPresent(table, key, value) ==
    IF key \in DOMAIN table THEN table ELSE (key :> value) @@ table

\* Table::insertOrAssign
insertOrAssign(table, key, value) == (key :> value) @@ table

\* begin()..end() of the unordered_map: the order is the hash table's
TableIteration(table) == SelectSeq(hashOrder, LAMBDA n : n \in DOMAIN table)

RECURSIVE MergeFrom(_, _, _)
MergeFrom(merged, b, names) ==
    IF names = <<>> THEN merged
    ELSE MergeFrom(insertOrAssign(merged, Head(names), b[Head(names)]),
                   b, Tail(names))

mergeSymbolTables(a, b) == MergeFrom(a, b, TableIteration(b))

-----------------------------------------------------------------------------
(* Destructors *)

isClassTy(ty) == ty \in ClassTypes

\* findDestructor: the destructor of the class, or null
findDestructor(class_name) == class_name \in ClassesWithDestructor

\* invokeDestructor(ctx, const std::shared_ptr<Variable>&)
invokeDestructor(ctx, v) ==
    IF findDestructor(ctx.vars[v].ty)
      THEN Emit(ctx, Instr("dtor", v, 0, ""))
      ELSE ctx

RECURSIVE DestructAll(_, _, _)
DestructAll(ctx, symbols, names) ==
    IF names = <<>> THEN ctx
    ELSE LET v == symbols[Head(names)]
             c == IF isClassTy(ctx.vars[v].ty)
                    THEN invokeDestructor(ctx, v)
                    ELSE ctx
         IN  DestructAll(c, symbols, Tail(names))

createDestructBB(ctx, stmt_ctx, symbols, return_) ==
    LET c1 == SetInsertPoint(PushBack(ctx, stmt_ctx.destruct_bb),
                             stmt_ctx.destruct_bb)
        c2 == DestructAll(c1, symbols, TableIteration(symbols))
    IN  IF return_ THEN CreateBr(c2, stmt_ctx.end_bb, "destruct") ELSE c2


-----------------------------------------------------------------------------
(* StmtVisitor and createStatement (stmt.cpp) *)

\* StmtContext; 0 stands for a null block pointer
StmtContext(destruct_bb, end_bb, break_bb, continue_bb) ==
    [destruct_bb |-> destruct_bb, end_bb |-> end_bb,
     break_bb |-> break_bb, continue_bb |-> continue_bb]

\* what a visit leaves behind: the builder and the visitor's own scope
Visited(ctx, scope) == [ctx |-> ctx, scope |-> scope]

\* StmtVisitor::getAllSymbols
getAllSymbols(parent_scope, scope) == mergeSymbolTables(parent_scope, scope)

RECURSIVE createStatement(_, _, _, _), StmtVisitor(_, _, _, _, _),
          VisitStatements(_, _, _, _, _), OptionalStatement(_, _, _, _)

\* a return lowered to a return instruction where the statement stands
ReturnInPlace(ctx, stmt_ctx) == Emit(ctx, Instr("ret", 0, 0, ""))

\* operator()(const ast::Return&): the value is stored, then the branch
VisitReturn(ctx, stmt_ctx) ==
    CreateBr(Emit(ctx, Instr("store_ret", 0, 0, "")),
             stmt_ctx.destruct_bb, "return")

\* operator()(const ast::VariableDef&)
VisitVariableDef(ctx, scope, stmt_ctx, node) ==
    Visited(Emit(createEntryAlloca(ctx, node.name, node.ty, stmt_ctx.break_bb),
                 Instr("def", NewAlloca(ctx), 0, "")),
            insertOrAssign(scope, node.name, NewAlloca(ctx)))

\* a break lowered to a branch without the test for a loop
BreakUnchecked(ctx, stmt_ctx) ==
    Emit(ctx, Instr("br", stmt_ctx.break_bb, stmt_ctx.break_bb, "break"))

\* operator()(ast::Break)
VisitBreak(ctx, stmt_ctx) ==
    IF stmt_ctx.break_bb # 0
      THEN Emit(ctx, Instr("br", stmt_ctx.break_bb, stmt_ctx.break_bb,
                           "break"))
      ELSE ctx

\* a continue lowered to a branch to the loop's end block
ContinueToLoopEnd(ctx, stmt_ctx) ==
    IF stmt_ctx.continue_bb # 0
      THEN Emit(ctx, Instr("br", stmt_ctx.break_bb, stmt_ctx.break_bb,
                           "continue"))
      ELSE ctx

\* operator()(ast::Continue)
VisitContinue(ctx, stmt_ctx) ==
    IF stmt_ctx.continue_bb # 0
      THEN Emit(ctx, Instr("br", stmt_ctx.continue_bb, stmt_ctx.break_bb,
                           "continue"))
      ELSE ctx

\* if (statement) createStatement(ctx, scope, stmt_ctx, *statement);
OptionalStatement(ctx, symbols, stmt_ctx, statement) ==
    IF statement # None
      THEN createStatement(ctx, symbols, stmt_ctx, statement)
      ELSE ctx

\* operator()(const ast::If&)
VisitIf(ctx, symbols, stmt_ctx, node) ==
    LET then_bb  == NewBB(ctx, 1)
        else_bb  == NewBB(ctx, 2)
        merge_bb == NewBB(ctx, 3)
        c1 == BasicBlockCreate(BasicBlockCreate(BasicBlockCreateIn(ctx)))
        c2 == CreateCondBr(Emit(c1, Instr("expr", 0, 0, "")),
                           then_bb, else_bb, "if")
        c3 == createStatement(SetInsertPoint(c2, then_bb), symbols, stmt_ctx,
                              node.kids[1])
        c4 == BrUnlessTerminated(c3, merge_bb, "if")
        c5 == SetInsertPoint(PushBack(c4, else_bb), else_bb)
        c6 == OptionalStatement(c5, symbols, stmt_ctx, node.kids[2])
        c7 == BrUnlessTerminated(c6, merge_bb, "if")
    IN  SetInsertPoint(PushBack(c7, merge_bb), merge_bb)

\* operator()(const ast::Loop&)
VisitLoop(ctx, symbols, stmt_ctx, node) ==
    LET body_bb     == NewBB(ctx, 1)
        loop_end_bb == NewBB(ctx, 2)
        c1 == BasicBlockCreate(BasicBlockCreateIn(ctx))
        c2 == SetInsertPoint(CreateBr(c1, body_bb, "loop"), body_bb)
        c3 == createStatement(c2, symbols,
                              StmtContext(stmt_ctx.destruct_bb, stmt_ctx.end_bb,
                                          loop_end_bb, body_bb),
                              node.kids[1])
        c4 == BrUnlessTerminated(c3, body_bb, "loop")
    IN  SetInsertPoint(PushBack(c4, loop_end_bb), loop_end_bb)

\* operator()(const ast::While&)
VisitWhile(ctx, symbols, stmt_ctx, node) ==
    LET cond_bb     == NewBB(ctx, 1)
        body_bb     == NewBB(ctx, 2)
        loop_end_bb == NewBB(ctx, 3)
        c1 == BasicBlockCreate(BasicBlockCreate(BasicBlockCreateIn(ctx)))
        c2 == SetInsertPoint(CreateBr(c1, cond_bb, "loop"), cond_bb)
        c3 == CreateCondBr(Emit(c2, Instr("expr", 0, 0, "")),
                           body_bb, loop_end_bb, "loop")
        c4 == SetInsertPoint(PushBack(c3, body_bb), body_bb)
        c5 == createStatement(c4, symbols,
                              StmtContext(stmt_ctx.destruct_bb, stmt_ctx.end_bb,
                                          loop_end_bb, cond_bb),
                              node.kids[1])
        c6 == BrUnlessTerminated(c5, cond_bb, "loop")
    IN  SetInsertPoint(PushBack(c6, loop_end_bb), loop_end_bb)

\* the loop of operator()(const ast::For&) behind the init statement, whose
\* visit left init
ForLoop(init, parent_scope, stmt_ctx, node) ==
    LET symbols     == getAllSymbols(parent_scope, init.scope)
        cond_bb     == NewBB(init.ctx, 1)
        loop_bb     == NewBB(init.ctx, 2)
        body_bb     == NewBB(init.ctx, 3)
        loop_end_bb == NewBB(init.ctx, 4)
        new_stmt_ctx == StmtContext(stmt_ctx.destruct_bb, stmt_ctx.end_bb,
                                    loop_end_bb, loop_bb)
        c1 == BasicBlockCreate(BasicBlockCreate(BasicBlockCreate(
                BasicBlockCreateIn(init.ctx))))
        c2 == SetInsertPoint(CreateBr(c1, cond_bb, "loop"), cond_bb)
        c3 == CreateCondBr(Emit(c2, Instr("expr", 0, 0, "")),
                           body_bb, loop_end_bb, "loop")
        c4 == SetInsertPoint(PushBack(c3, body_bb), body_bb)
        c5 == createStatement(c4, symbols, new_stmt_ctx, node.kids[2])
        c6 == BrUnlessTerminated(c5, loop_bb, "loop")
        c7 == SetInsertPoint(PushBack(c6, loop_bb), loop_bb)
        c8 == OptionalStatement(c7, symbols, new_stmt_ctx, node.kids[3])
        c9 == CreateBr(c8, cond_bb, "loop")
    IN  Visited(SetInsertPoint(PushBack(c9, loop_end_bb), loop_end_bb),
                init.scope)

\* a for statement whose init statement has a scope of its own, which ends
\* with the loop
VisitForOwnScope(ctx, parent_scope, scope, stmt_ctx, node) ==
    Visited(ForLoop(IF node.kids[1] # None
                      THEN StmtVisitor(ctx,
                                       getAllSymbols(parent_scope, scope),
                                       EmptyTable, stmt_ctx, node.kids[1])
                      ELSE Visited(ctx, EmptyTable),
                    getAllSymbols(parent_scope, scope), stmt_ctx,
                    node).ctx,
            scope)

\* operator()(const ast::For&); the init statement is visited by this
\* visitor itself, so it writes into the visitor's scope
VisitFor(ctx, parent_scope, scope, stmt_ctx, node) ==
    ForLoop(IF node.kids[1] # None
              THEN StmtVisitor(ctx, parent_scope, scope, stmt_ctx,
                               node.kids[1])
              ELSE Visited(ctx, scope),
            parent_scope, stmt_ctx, node)

\* boost::apply_visitor(StmtVisitor{ctx, parent_scope, scope, stmt_ctx}, node)
StmtVisitor(ctx, parent_scope, scope, stmt_ctx, node) ==
    CASE node.kind = "CompoundStatement" ->
           Visited(createStatement(ctx, getAllSymbols(parent_scope, scope),
                                   stmt_ctx, node), scope)
      [] node.kind = "Expr" ->
           Visited(Emit(ctx, Instr("expr", 0, 0, "")), scope)
      [] node.kind = "Return" -> Visited(VisitReturn(ctx, stmt_ctx), scope)
      [] node.kind = "VariableDef" ->
           VisitVariableDef(ctx, scope, stmt_ctx, node)
      [] node.kind = "If" ->
           Visited(VisitIf(ctx, getAllSymbols(parent_scope, scope), stmt_ctx,
                           node), scope)
      [] node.kind = "Loop" ->
           Visited(VisitLoop(ctx, getAllSymbols(parent_scope, scope), stmt_ctx,
                             node), scope)
      [] node.kind = "While" ->
           Visited(VisitWhile(ctx, getAllSymbols(parent_scope, scope),
                              stmt_ctx, node), scope)
      [] node.kind = "For" ->
           VisitFor(ctx, parent_scope, scope, stmt_ctx, node)
      [] node.kind = "Break" -> Visited(VisitBreak(ctx, stmt_ctx), scope)
      [] node.kind = "Continue" -> Visited(VisitContinue(ctx, stmt_ctx), scope)
      [] OTHER -> Visited(ctx, scope)      \* boost::blank

\* the loop of createStatement over a compound statement: r is what the
\* statements before statement i left; the loop ends behind a statement that
\* terminated the block (terminators cannot be in the middle of a block)
VisitStatements(r, parent_scope, stmt_ctx, statements, i) ==
    IF i > Len(statements) \/ (i > 1 /\ Terminated(r.ctx)) THEN r
    ELSE VisitStatements(
           StmtVisitor(r.ctx, parent_scope, r.scope, stmt_ctx, statements[i]),
           parent_scope, stmt_ctx, statements, i + 1)

\* the end of createStatement: the branch to the destruct block unless the
\* block is terminated, then the destruct block
LeaveScope(r, new_stmt_ctx) ==
    IF Terminated(r.ctx)
      THEN createDestructBB(r.ctx, new_stmt_ctx, r.scope, TRUE)
      ELSE createDestructBB(
             CreateBr(r.ctx, new_stmt_ctx.destruct_bb, "scope"),
             new_stmt_ctx, r.scope, FALSE)

\* createStatement with a local table that begins as a copy of the
\* enclosing scope's symbols
createStatementShared(ctx, scope_arg, stmt_ctx_arg, statement) ==
    LET new_stmt_ctx == [stmt_ctx_arg EXCEPT !.destruct_bb = NewBB(ctx, 1)]
    IN  LeaveScope(
          IF statement.kind = "CompoundStatement"
            THEN VisitStatements(Visited(BasicBlockCreate(ctx), scope_arg),
                                 scope_arg, new_stmt_ctx, statement.kids, 1)
            ELSE StmtVisitor(BasicBlockCreate(ctx), scope_arg, scope_arg,
                             new_stmt_ctx, statement),
          new_stmt_ctx)

createStatement(ctx, scope_arg, stmt_ctx_arg, statement) ==
    LET new_stmt_ctx == [stmt_ctx_arg EXCEPT !.destruct_bb = NewBB(ctx, 1)]
    IN  LeaveScope(
          IF statement.kind = "CompoundStatement"
            THEN VisitStatements(Visited(BasicBlockCreate(ctx), EmptyTable),
                                 scope_arg, new_stmt_ctx, statement.kids, 1)
            ELSE StmtVisitor(BasicBlockCreate(ctx), scope_arg, EmptyTable,
                             new_stmt_ctx, statement),
          new_stmt_ctx)

\* the builder before anything is lowered
NoFunction ==
    [blocks |-> <<>>, layout |-> <<>>, ip |-> 0, vars |-> <<>>,
     entry_bb |-> 0, end_bb |-> 0]

\* the end of a function body that does not return: the default return
\* value is stored and the end block is branched to
FallOffTheEnd(ctx, end_bb) ==
    IF ~Terminated(ctx)
      THEN CreateBr(Emit(ctx, Instr("store_ret", 0, 0, "")),
                    end_bb, "function")
      ELSE ctx

\* the function definition around the body: entry block, end block, the
\* body, the fall-off-the-end branch and the single return
FunctionDef(body) ==
    LET entry_bb == NewBB(NoFunction, 1)
        end_bb   == NewBB(NoFunction, 2)
        c1 == BasicBlockCreate(
                SetInsertPoint(BasicBlockCreateIn(NoFunction), entry_bb))
        c2 == createStatement(c1, EmptyTable, StmtContext(0, end_bb, 0, 0),
                              body)
        c3 == FallOffTheEnd(c2, end_bb)
        c4 == SetInsertPoint(PushBack(c3, end_bb), end_bb)
    IN  [Emit(c4, Instr("ret", 0, 0, ""))
           EXCEPT !.entry_bb = entry_bb, !.end_bb = end_bb]


-----------------------------------------------------------------------------
(* Running the emitted function: one step executes one basic block *)

\* position of the first terminator of a block, 0 if it has none
RECURSIVE FirstTerminator(_, _)
FirstTerminator(block, i) ==
    IF i > Len(block) THEN 0
    ELSE IF IsTerminator(block[i]) THEN i
    ELSE FirstTerminator(block, i + 1)

TerminatorOf(bb) == cg.blocks[bb][FirstTerminator(cg.blocks[bb], 1)]

HasTerminator(bb) == FirstTerminator(cg.blocks[bb], 1) # 0

\* an object with a destructor to run: a class-typed alloca whose class
\* defines one
Destructible(v) ==
    isClassTy(cg.vars[v].ty) /\ findDestructor(cg.vars[v].ty)

\* the effect of the instructions block[i..] before the terminator on the
\* objects alive: s = [live, leaked, dbl]
RECURSIVE Execute(_, _, _)
Execute(block, i, s) ==
    IF i > Len(block) \/ IsTerminator(block[i]) THEN s
    ELSE LET ins == block[i]
             t == CASE ins.op = "def" /\ Destructible(ins.a) ->
                        [s EXCEPT !.live = @ \cup {ins.a},
                                  !.leaked = IF ins.a \in s.live
                                               THEN @ \cup {ins.a} ELSE @]
                    [] ins.op = "dtor" ->
                        [s EXCEPT !.live = @ \ {ins.a},
                                  !.dbl = IF ins.a \in s.live
                                            THEN @ ELSE @ \cup {ins.a}]
                    [] OTHER -> s
         IN  Execute(block, i + 1, t)

After(bb) ==
    Execute(cg.blocks[bb], 1, [live |-> live, leaked |-> leaked, dbl |-> dbl])

Goto(bb) ==
    /\ pc' = bb
    /\ via' = TerminatorOf(pc)
    /\ live' = After(pc).live
    /\ leaked' = After(pc).leaked
    /\ dbl' = After(pc).dbl
    /\ UNCHANGED <<ast, hashOrder, phase, cg>>
    /\ UNCHANGED <<templateVars, orderVars, parseVars, exprVars, restVars>>

-----------------------------------------------------------------------------
(* Type AST (ast.hpp): ast::Type, a boost::variant, one record shape for   *)
(* every arm. Identifiers and builtin kinds are numbers, ordered as the     *)
(* strings and the enumerators are. Source positions are not part of it.    *)

\* which: the index of the arm in the variant's list of types
\* n:     BuiltinType::kind, UserDefinedType::name, the name of
\*        UserDefinedTemplateType::template_type, PointerType::n_ops.size()
\* size:  ArrayType::size
\* sub:   the types inside: template arguments, element, pointee, referee
TypeNode(which, n, size, sub) ==
    [which |-> which, n |-> n, size |-> size, sub |-> sub]

Blank == TypeNode(0, 0, 0, <<>>)

BuiltinType(kind) == TypeNode(1, kind, 0, <<>>)

UserDefinedType(name) == TypeNode(2, name, 0, <<>>)

UserDefinedTemplateType(template_type, template_args) ==
    TypeNode(3, template_type.n, 0, template_args)

ArrayType(element_type, size) == TypeNode(4, 0, size, <<element_type>>)

PointerType(n_ops, pointee_type) == TypeNode(5, n_ops, 0, <<pointee_type>>)

ReferenceType(refee_type) == TypeNode(6, 0, 0, <<refee_type>>)

RECURSIVE TypeLess(_, _), TypesLess(_, _, _)

\* std::vector<Type>::operator<, std::lexicographical_compare from index i
TypesLess(a, b, i) ==
    IF i > Len(b) THEN FALSE
    ELSE IF i > Len(a) THEN TRUE
    ELSE IF TypeLess(a[i], b[i]) THEN TRUE
    ELSE IF TypeLess(b[i], a[i]) THEN FALSE
    ELSE TypesLess(a, b, i + 1)

\* TemplateArguments::operator<
TemplateArgumentsLess(a, b) == TypesLess(a, b, 1)

\* boost::variant::operator<: the index of the arm decides when the arms
\* differ, otherwise the operator< of the arm's struct
TypeLess(a, b) ==
    IF a.which # b.which THEN a.which < b.which
    ELSE CASE a.which = 0 -> FALSE                    \* boost::blank
           [] a.which = 1 -> a.n < b.n                \* BuiltinType
           [] a.which = 2 -> a.n < b.n                \* UserDefinedType
           [] a.which = 3 ->                          \* UserDefinedTemplateType
                a.n < b.n /\ TemplateArgumentsLess(a.sub, b.sub)
           [] a.which = 4 ->                          \* ArrayType
                TypeLess(a.sub[1], b.sub[1]) /\ a.size < b.size
           [] a.which = 5 ->                          \* PointerType
                a.n < b.n /\ TypeLess(a.sub[1], b.sub[1])
           [] a.which = 6 ->                          \* ReferenceType
                TypeLess(a.sub[1], b.sub[1])

\* the types compared: kinds and names 1 and 2, sizes 2 and 3, one or two
\* pointer operators, nested up to depth d
BuiltinTypeKinds == {1, 2}
Identifiers == {1, 2}
ArraySizes == {2, 3}
PointerDepths == {1, 2}

RECURSIVE TypesOfDepth(_)
TypesOfDepth(d) ==
    IF d = 0
      THEN { BuiltinType(k) : k \in BuiltinTypeKinds }
           \cup { UserDefinedType(n) : n \in Identifiers }
      ELSE LET inner == TypesOfDepth(d - 1)
               lists == {<<>>} \cup { <<t>> : t \in inner }
                        \cup { <<t, u>> : t \in inner, u \in inner }
           IN  inner
               \cup { UserDefinedTemplateType(UserDefinedType(n), l) :
                        n \in Identifiers, l \in lists }
               \cup { ArrayType(t, z) : t \in inner, z \in ArraySizes }
               \cup { PointerType(o, t) : o \in PointerDepths, t \in inner }
               \cup { ReferenceType(t) : t \in inner }

-----------------------------------------------------------------------------
(* NamespaceStack and the registry of instantiated class templates          *)
(* (codegen.hpp)                                                            *)

Namespace(name, kind) == [name |-> name, kind |-> kind]

\* Namespace::operator<
NamespaceLess(a, b) == a.name < b.name

\* NamespaceStack::operator<, std::lexicographical_compare from index i
RECURSIVE NamespaceStackLess(_, _, _)
NamespaceStackLess(a, b, i) ==
    IF i > Len(b) THEN FALSE
    ELSE IF i > Len(a) THEN TRUE
    ELSE IF NamespaceLess(a[i], b[i]) THEN TRUE
    ELSE IF NamespaceLess(b[i], a[i]) THEN FALSE
    ELSE NamespaceStackLess(a, b, i + 1)

\* a key that forgets the template arguments
KeyWithoutArguments(name, args, ns) == <<name, <<>>, ns>>

\* CreatedClassTemplateTableKey: std::tuple of name, arguments, namespaces
CreatedClassTemplateTableKey(name, args, ns) == <<name, args, ns>>

\* std::tuple::operator< on two keys
KeyLess(a, b) ==
    \/ a[1] < b[1]
    \/ /\ ~(b[1] < a[1])
       /\ \/ TemplateArgumentsLess(a[2], b[2])
          \/ /\ ~TemplateArgumentsLess(b[2], a[2])
             /\ NamespaceStackLess(a[3], b[3], 1)

\* std::pair::operator< on two elements; a std::shared_ptr compares as its
\* address, which the number of the type stands for
ElemLess(a, b) ==
    \/ KeyLess(a[1], b[1])
    \/ ~KeyLess(b[1], a[1]) /\ a[2] < b[2]

\* CreatedClassTemplateTable::insert: std::set takes the element unless it
\* holds an equivalent one
TemplateTableInsert(table, key, value) ==
    IF \E e \in table : ~ElemLess(e, <<key, value>>)
                        /\ ~ElemLess(<<key, value>>, e)
      THEN table
      ELSE table \cup {<<key, value>>}

\* CreatedClassTemplateTable::operator[]: the type stored under the key, or
\* 0 for std::nullopt
TemplateTableLookup(table, key) ==
    IF \E e \in table : e[1] = key
      THEN (CHOOSE e \in table : e[1] = key)[2]
      ELSE 0

-----------------------------------------------------------------------------
(* The parser (parse.cpp): a parsing expression grammar over tokens.       *)
(* A token is one lexeme after the skipper has removed blanks and comments; *)
(* "id" is an identifier that is no keyword, "int" an integer literal. No   *)
(* identifier of the input begins with a keyword.                           *)
(*                                                                          *)
(* A rule is parsed at a position with the error count so far and answers   *)
(* with a result: "ok" and the position behind what it consumed, "fail"     *)
(* (the caller's position stays), or "throw" while an                       *)
(* x3::expectation_failure is in flight. The count of errors is threaded    *)
(* through every result, since the counter is a static.                     *)

Keywords == {"func", "extern", "ret", "var", "mutable", "if", "else", "for"}

Ok(pos, errs)  == [st |-> "ok", pos |-> pos, errs |-> errs]
Fail(errs)     == [st |-> "fail", pos |-> 0, errs |-> errs]
Throw(errs)    == [st |-> "throw", pos |-> 0, errs |-> errs]

\* x3::lit(t), x3::string(t) at pos
Lit(toks, pos, t) == pos <= Len(toks) /\ toks[pos] = t

\* identifier: a letter or '_' and then letters, digits or '_'; a keyword
\* is such a lexeme too
identifier(toks, pos) ==
    pos <= Len(toks) /\ toks[pos] \in Keywords \cup {"id"}

\* integer: x3::int_
integer(toks, pos) == Lit(toks, pos, "int")

\* with_error_handling::on_error around a rule that has the handler: the
\* error is counted and reported, and the rule fails
on_error(r) == IF r.st = "throw" THEN Fail(r.errs + 1) ELSE r

\* a > b: the operand after an expectation operator must not fail
Expect(r) == IF r.st = "fail" THEN Throw(r.errs) ELSE r

\* ... > x3::lit(t) behind the result r
ExpectLit(toks, r, t) ==
    IF r.st # "ok" THEN r
    ELSE IF Lit(toks, r.pos, t) THEN Ok(r.pos + 1, r.errs)
    ELSE Throw(r.errs)

\* the operators of the five binary rules and of unary
OperatorsOf(rule) ==
    CASE rule = "assignment"     -> {"="}
      [] rule = "equality"       -> {"==", "!="}
      [] rule = "relational"     -> {"<=", ">=", "<", ">"}
      [] rule = "addition"       -> {"+", "-"}
      [] rule = "multiplication" -> {"*", "/"}
      [] rule = "unary"          -> {"+", "-"}

Operator(toks, pos, rule) ==
    pos <= Len(toks) /\ toks[pos] \in OperatorsOf(rule)

\* -a: an operand that failed at pos is left out
Optional(pos, r) == IF r.st = "fail" THEN Ok(pos, r.errs) ELSE r

RECURSIVE expression(_, _, _), BinaryRule(_, _, _, _), Operand(_, _, _, _),
          MoreOperands(_, _, _), unary(_, _, _), primary(_, _, _),
          argument_list(_, _, _), MoreArguments(_, _),
          statement(_, _, _), compound_statement(_, _, _),
          MoreStatements(_, _, _), compound_statement_or_statement(_, _, _),
          if_statement(_, _, _), for_statement(_, _, _),
          Alternative(_, _, _, _)

\* primary_def with the handler of primary_tag
primary(toks, pos, errs) ==
    on_error(
      IF Lit(toks, pos, "(")
        THEN ExpectLit(toks, Expect(expression(toks, pos + 1, errs)), ")")
      ELSE IF integer(toks, pos) THEN Ok(pos + 1, errs)
      ELSE IF identifier(toks, pos) /\ Lit(toks, pos + 1, "(")
        THEN ExpectLit(toks, Expect(argument_list(toks, pos + 2, errs)), ")")
      ELSE IF identifier(toks, pos) THEN Ok(pos + 1, errs)
      ELSE Fail(errs))

\* unary_def with the handler of unary_tag
unary(toks, pos, errs) ==
    on_error(
      IF Operator(toks, pos, "unary")
        THEN Expect(primary(toks, pos + 1, errs))
        ELSE primary(toks, pos, errs))

\* the rule one level below a binary rule
Operand(rule, toks, pos, errs) ==
    CASE rule = "assignment"     -> BinaryRule("equality", toks, pos, errs)
      [] rule = "equality"       -> BinaryRule("relational", toks, pos, errs)
      [] rule = "relational"     -> BinaryRule("addition", toks, pos, errs)
      [] rule = "addition"       -> BinaryRule("multiplication", toks, pos, errs)
      [] rule = "multiplication" -> unary(toks, pos, errs)

\* *(operator > operand) behind the result r
MoreOperands(rule, toks, r) ==
    IF r.st = "ok" /\ Operator(toks, r.pos, rule)
      THEN MoreOperands(rule, toks,
                        Expect(Operand(rule, toks, r.pos + 1, r.errs)))
      ELSE r

\* assignment_def, equality_def, relational_def, addition_def and
\* multiplication_def, each with the handler of its tag
BinaryRule(rule, toks, pos, errs) ==
    on_error(MoreOperands(rule, toks, Operand(rule, toks, pos, errs)))

\* expression_def with the handler of expression_tag
expression(toks, pos, errs) ==
    on_error(BinaryRule("assignment", toks, pos, errs))

\* *(',' > expression) behind the result r
MoreArguments(toks, r) ==
    IF r.st = "ok" /\ Lit(toks, r.pos, ",")
      THEN MoreArguments(toks, Expect(expression(toks, r.pos + 1, r.errs)))
      ELSE r

\* argument_list_def with the handler of argument_list_tag
argument_list(toks, pos, errs) ==
    on_error(Optional(pos, MoreArguments(toks, expression(toks, pos, errs))))

\* ... > expression behind the result r
ExpectExpression(toks, r) ==
    IF r.st # "ok" THEN r ELSE Expect(expression(toks, r.pos, r.errs))

\* ... > -expression behind the result r
OptionalExpression(toks, r) ==
    IF r.st # "ok" THEN r
    ELSE Optional(r.pos, expression(toks, r.pos, r.errs))

expression_statement(toks, pos, errs) ==
    on_error(ExpectLit(toks, expression(toks, pos, errs), ";"))

\* the rule's tag, variable_def_statement_tag, is never defined: the rule
\* has no error handler, an expectation failure leaves it
variable_def_statement(toks, pos, errs) ==
    IF ~Lit(toks, pos, "var") THEN Fail(errs)
    ELSE LET q == IF Lit(toks, pos + 1, "mutable") THEN pos + 2 ELSE pos + 1
         IN  IF ~identifier(toks, q) THEN Throw(errs)
             ELSE IF Lit(toks, q + 1, "=")
               THEN ExpectLit(toks, Expect(expression(toks, q + 2, errs)), ";")
               ELSE ExpectLit(toks, Ok(q + 1, errs), ";")

return_statement(toks, pos, errs) ==
    on_error(
      IF ~Lit(toks, pos, "ret") THEN Fail(errs)
      ELSE ExpectLit(toks, Expect(expression(toks, pos + 1, errs)), ";"))

\* a | b: the alternative rule is tried at pos when the one before it, whose
\* result is r, failed; an exception is no failure
Alternative(rule, toks, pos, r) ==
    IF r.st # "fail" THEN r
    ELSE CASE rule = "variable_def_statement" ->
                variable_def_statement(toks, pos, r.errs)
           [] rule = "if_statement" -> if_statement(toks, pos, r.errs)
           [] rule = "for_statement" -> for_statement(toks, pos, r.errs)
           [] rule = "expression_statement" ->
                expression_statement(toks, pos, r.errs)
           [] rule = "statement" -> statement(toks, pos, r.errs)

\* the rule's tag is never defined: no error handler
compound_statement_or_statement(toks, pos, errs) ==
    Alternative("statement", toks, pos, compound_statement(toks, pos, errs))

\* ... > compound_statement_or_statement behind the result r
ExpectBody(toks, r) ==
    IF r.st # "ok" THEN r
    ELSE Expect(compound_statement_or_statement(toks, r.pos, r.errs))

\* -("else" > compound_statement_or_statement) behind the result r
OptionalElse(toks, r) ==
    IF r.st = "ok" /\ Lit(toks, r.pos, "else")
      THEN ExpectBody(toks, Ok(r.pos + 1, r.errs))
      ELSE r

if_statement(toks, pos, errs) ==
    on_error(
      IF ~Lit(toks, pos, "if") THEN Fail(errs)
      ELSE LET open == ExpectLit(toks, Ok(pos + 1, errs), "(")
               cond == ExpectLit(toks, ExpectExpression(toks, open), ")")
           IN  OptionalElse(toks, ExpectBody(toks, cond)))

for_statement(toks, pos, errs) ==
    on_error(
      IF ~Lit(toks, pos, "for") THEN Fail(errs)
      ELSE LET open == ExpectLit(toks, Ok(pos + 1, errs), "(")
               init == ExpectLit(toks, OptionalExpression(toks, open), ";")
               cond == ExpectLit(toks, OptionalExpression(toks, init), ";")
               loop == ExpectLit(toks, OptionalExpression(toks, cond), ")")
           IN  ExpectBody(toks, loop))

\* statement_def with the handler of statement_tag; an alternative is tried
\* when the one before it failed, an exception ends the rule
statement(toks, pos, errs) ==
    on_error(
      IF Lit(toks, pos, ";") THEN Ok(pos + 1, errs)
      ELSE Alternative("expression_statement", toks, pos,
             Alternative("for_statement", toks, pos,
               Alternative("if_statement", toks, pos,
                 Alternative("variable_def_statement", toks, pos,
                   return_statement(toks, pos, errs))))))

\* *statement: n is the result of the statement tried at pos
MoreStatements(toks, pos, n) ==
    IF n.st = "ok"
      THEN MoreStatements(toks, n.pos, statement(toks, n.pos, n.errs))
      ELSE Ok(pos, n.errs)

\* compound_statement_def with the handler of compound_statement_tag
compound_statement(toks, pos, errs) ==
    on_error(
      IF ~Lit(toks, pos, "{") THEN Fail(errs)
      ELSE ExpectLit(toks,
             MoreStatements(toks, pos + 1, statement(toks, pos + 1, errs)),
             "}"))

\* *(',' > identifier) behind the result r
RECURSIVE MoreParameters(_, _)
MoreParameters(toks, r) ==
    IF Lit(toks, r.pos, ",")
      THEN IF identifier(toks, r.pos + 1)
             THEN MoreParameters(toks, Ok(r.pos + 2, r.errs))
             ELSE Throw(r.errs)
      ELSE r

parameter_list(toks, pos, errs) ==
    on_error(
      IF identifier(toks, pos)
        THEN MoreParameters(toks, Ok(pos + 1, errs))
        ELSE Ok(pos, errs))

\* ... > parameter_list behind the result r
ExpectParameterList(toks, r) ==
    IF r.st # "ok" THEN r ELSE Expect(parameter_list(toks, r.pos, r.errs))

function_proto(toks, pos, errs) ==
    on_error(
      IF ~identifier(toks, pos) THEN Fail(errs)
      ELSE ExpectLit(toks,
             ExpectParameterList(toks,
               ExpectLit(toks, Ok(pos + 1, errs), "(")), ")"))

function_declare(toks, pos, errs) ==
    on_error(
      IF ~Lit(toks, pos, "extern") THEN Fail(errs)
      ELSE ExpectLit(toks, Expect(function_proto(toks, pos + 1, errs)), ";"))

\* ... > compound_statement behind the result r
ExpectCompoundStatement(toks, r) ==
    IF r.st # "ok" THEN r ELSE Expect(compound_statement(toks, r.pos, r.errs))

function_define(toks, pos, errs) ==
    on_error(
      IF ~Lit(toks, pos, "func") THEN Fail(errs)
      ELSE ExpectCompoundStatement(toks,
             Expect(function_proto(toks, pos + 1, errs))))

\* function_declare | function_define: the second is tried when the first
\* failed
OrFunctionDefine(toks, pos, r) ==
    IF r.st # "fail" THEN r ELSE function_define(toks, pos, r.errs)

top_level_stmt(toks, pos, errs) ==
    on_error(OrFunctionDefine(toks, pos, function_declare(toks, pos, errs)))

\* *top_level_stmt: n is the result of the top_level_stmt tried at pos
RECURSIVE MoreTopLevelStmts(_, _, _)
MoreTopLevelStmts(toks, pos, n) ==
    IF n.st = "ok"
      THEN MoreTopLevelStmts(toks, n.pos, top_level_stmt(toks, n.pos, n.errs))
      ELSE Ok(pos, n.errs)

\* x3::eoi
eoi(toks, pos) == pos > Len(toks)

\* ... > x3::eoi behind the result r
ExpectEoi(toks, r) ==
    IF r.st # "ok" THEN r
    ELSE IF eoi(toks, r.pos) THEN r ELSE Throw(r.errs)

\* program = *top_level_stmt > x3::eoi, with the handler of program_tag
program(toks, pos, errs) ==
    on_error(
      ExpectEoi(toks,
        MoreTopLevelStmts(toks, pos, top_level_stmt(toks, pos, errs))))

\* the end of parser::parse: r is what x3::phrase_parse left. The AST is
\* kept unless the parse did not succeed or input is left, and then a
\* std::runtime_error with the value of the static counter is thrown
Parsed(toks, errors_before, r) ==
    LET success == r.st = "ok"
        first   == IF success THEN r.pos ELSE 1
        thrown  == ~success \/ ~eoi(toks, first)
    IN  [parsed   |-> TRUE,
         accepted |-> ~thrown,
         consumed |-> eoi(toks, first),
         failures |-> r.errs - errors_before,
         reported |-> IF thrown THEN r.errs ELSE 0]

\* parser::parse: phrase_parse from the first token
parse(toks, errors_before) ==
    Parsed(toks, errors_before, program(toks, 1, errors_before))

\* the token sequence of a source given as a sequence of lines
RECURSIVE Tokens(_)
Tokens(lines) ==
    IF lines = <<>> THEN <<>> ELSE Head(lines) \o Tokens(Tail(lines))

-----------------------------------------------------------------------------
(* Binary operators: ExprVisitor::operator()(const ast::BinOp&) of expr.cpp *)
(* and expression_visitor::operator()(const ast::binary_op_expr&) of        *)
(* codegen.cxx                                                              *)

\* an operand after it was lowered: the LLVM type of the value (an integer
\* of some width or a pointer, bits then naming the pointee), the
\* signedness the language gives it, and for codegen.cxx whether the
\* expression is a variable and a mutable one
Value(kind, bits, signed, variable, mutable) ==
    [kind |-> kind, bits |-> bits, signed |-> signed,
     variable |-> variable, mutable |-> mutable]

NoValue == Value("none", 0, FALSE, FALSE, FALSE)

\* llvm::Value::getType()
getType(v) == [kind |-> v.kind, bits |-> v.bits]

\* llvm::Type::getIntegerBitWidth() where it is defined, on integer types;
\* on a pointer type a build without assertions reads the address space, 0
getIntegerBitWidth(v) == IF v.kind = "int" THEN v.bits ELSE 0

\* builder.CreateIntCast(v, getIntNTy(bits), is_signed) and the Value made
\* of it
CreateIntCast(v, bits, is_signed) ==
    Value("int", bits, is_signed, FALSE, FALSE)

\* IntegerImplicitConversion(ctx, lhs, rhs): the operands after the call
IntegerImplicitConversion(lhs, rhs) ==
    LET lhs_bitwidth == getIntegerBitWidth(lhs)
        rhs_bitwidth == getIntegerBitWidth(rhs)
        max_bitwidth == IF lhs_bitwidth > rhs_bitwidth
                          THEN lhs_bitwidth ELSE rhs_bitwidth
        as_is_signed == IF lhs_bitwidth = max_bitwidth
                          THEN lhs.signed ELSE rhs.signed
    IN  IF lhs_bitwidth # rhs_bitwidth
          THEN IF lhs_bitwidth = max_bitwidth
                 THEN [lhs |-> lhs,
                       rhs |-> CreateIntCast(rhs, max_bitwidth, as_is_signed)]
                 ELSE [lhs |-> CreateIntCast(lhs, max_bitwidth, as_is_signed),
                       rhs |-> rhs]
          ELSE [lhs |-> lhs, rhs |-> rhs]

\* the largest value of a signed integer of the width; the model holds no
\* value of a wider operand beyond the 32-bit range
SignedMax(bits) == IF bits < 32 THEN 2^(bits - 1) - 1 ELSE 2147483647

\* the instruction builder.CreateIntCast creates between integer types: to
\* a wider type a sign extension if is_signed and a zero extension if not,
\* to a narrower type a truncation, to the same type none
IntCastOpcode(from_bits, to_bits, is_signed) ==
    IF to_bits > from_bits THEN (IF is_signed THEN "sext" ELSE "zext")
    ELSE IF to_bits < from_bits THEN "trunc"
    ELSE ""

\* the value of an operand of from_bits bits after the extension
\* CreateIntCast creates, read as the signed type if is_signed and as the
\* unsigned type if not: sext copies the sign bit of the bit pattern, zext
\* fills with zeros
ExtendedValue(value, from_bits, is_signed) ==
    IF is_signed
      THEN IF value > SignedMax(from_bits) THEN value - 2^from_bits
                                           ELSE value
      ELSE IF value < 0 THEN value + 2^from_bits ELSE value

Cast(opcode, value) == [opcode |-> opcode, value |-> value]

\* the cast IntegerImplicitConversion created for an operand: v is the
\* operand before the call, c the operand after it
CastOf(v, c, value) ==
    IF v.kind = "int" /\ c.kind = "int" /\ c.bits # v.bits
      THEN Cast(IntCastOpcode(v.bits, c.bits, c.signed),
                ExtendedValue(value, v.bits, c.signed))
      ELSE Cast("", value)

\* the casts of both operands
CastsOf(node, c, values) ==
    [lhs |-> CastOf(node.lhs, c.lhs, values.lhs),
     rhs |-> CastOf(node.rhs, c.rhs, values.rhs)]

\* what lowering an operator left behind: the visitor, how it ended
\* ("emitted", "error", "abort"), the message of the error, the instruction
\* and its operands, the width of the result
Lowered(by, st, error, opcode, lhs, rhs, bits) ==
    [by |-> by, st |-> st, error |-> error, opcode |-> opcode,
     lhs |-> lhs, rhs |-> rhs, bits |-> bits]

\* the operators ast::BinOp knows: isAddition() .. isGreaterOrEqual()
BinOpOperators == {"+", "-", "*", "/", "%", "==", "!=", "<", ">", "<=", ">="}

\* ExprVisitor::operator()(const ast::BinOp&). With assertions, the cast in
\* getIntegerBitWidth() aborts on an operand that is no integer.
BinOp(node, assertions) ==
    LET c == IntegerImplicitConversion(node.lhs, node.rhs)
    IN  IF assertions /\ (node.lhs.kind # "int" \/ node.rhs.kind # "int")
          THEN Lowered("BinOp", "abort", "", "", node.lhs, node.rhs, 0)
        ELSE IF getType(c.lhs) # getType(c.rhs)
          THEN Lowered("BinOp", "error",
                 "both operands to a binary operator are not of the same type",
                 "", c.lhs, c.rhs, 0)
        ELSE IF node.op \in BinOpOperators
          THEN Lowered("BinOp", "emitted", "", node.op, c.lhs, c.rhs,
                       c.lhs.bits)
        ELSE Lowered("BinOp", "error", "unknown operator detected", "",
                     c.lhs, c.rhs, 0)

AssignmentOperators == {"=", "+=", "-=", "*=", "/=", "%="}

\* the instruction codegen.cxx creates for an operator
CreatedInstruction(op) ==
    CASE op = "="  -> "store"
      [] op \in {"+", "+="} -> "add"
      [] op \in {"-", "-="} -> "sub"
      [] op \in {"*", "*="} -> "mul"
      [] op \in {"/", "/="} -> "sdiv"
      [] op \in {"%", "%="} -> "srem"
      [] op = "==" -> "icmp eq"
      [] op = "!=" -> "icmp ne"
      [] op = "<"  -> "icmp slt"
      [] op = ">"  -> "icmp sgt"
      [] op = "<=" -> "icmp sle"
      [] op = ">=" -> "icmp sge"

\* codegen_common::i1_to_boolean: the width of typename_to_type(bool_)
i1_to_boolean == 8

\* expression_visitor::operator()(const ast::binary_op_expr&); a variable
\* named on the left of an assignment is one of the scope
binary_op_expr(node) ==
    IF node.op \in AssignmentOperators
      THEN IF ~node.lhs.variable
             THEN Lowered("binary_op_expr", "error",
                    "the left hand side of the assignment must be a variable",
                    "", node.lhs, node.rhs, 0)
           ELSE IF ~node.lhs.mutable
             THEN Lowered("binary_op_expr", "error",
                    "assignment of read-only variable", "",
                    node.lhs, node.rhs, 0)
           ELSE Lowered("binary_op_expr", "emitted", "",
                        CreatedInstruction(node.op), node.lhs, node.rhs,
                        node.lhs.bits)
      ELSE Lowered("binary_op_expr", "emitted", "",
                   CreatedInstruction(node.op), node.lhs, node.rhs,
                   IF node.op \in {"==", "!=", "<", ">", "<=", ">="}
                     THEN i1_to_boolean ELSE node.lhs.bits)

-----------------------------------------------------------------------------
(* Assignments: StmtVisitor::createAssignment, createAssignableValue and    *)
(* operator()(const ast::PrefixIncrementDecrement&) of stmt.cpp             *)

\* the codegen Value an expression was lowered to: the instruction its
\* llvm::Value is, the pointer operand of that instruction or, for a value
\* of reference type, the pointer it wraps (0: none), Value::isMutable() and
\* getType()->isRefTy()
CGValue(inst, ptr, mutable, ref) ==
    [inst |-> inst, ptr |-> ptr, mutable |-> mutable, ref |-> ref]

\* what lowering a node left behind: the visitor, how it ended ("emitted",
\* "error", or "abort" when the compiler itself crashed), the message of the
\* error, the instruction that was created and, for a store, its address
Emitted(by, st, error, inst, addr) ==
    [by |-> by, st |-> st, error |-> error, inst |-> inst, addr |-> addr]

NotLowered == Emitted("", "", "", "", 0)

\* llvm::getPointerOperand(const Value*): the pointer operand of a load, a
\* store or a getelementptr, nullptr for every other value
getPointerOperand(value) ==
    IF value.inst \in {"load", "store", "gep"} THEN value.ptr ELSE 0

\* what createAssignableValue answers with: the address, or the error
Assignable(st, error, addr) == [st |-> st, error |-> error, addr |-> addr]

\* createAssignableValue without the test of isMutable()
createAssignableValueUnchecked(value, const_check) ==
    IF value.ref
      THEN Assignable("ok", "", value.ptr)
      ELSE Assignable("ok", "", getPointerOperand(value))

\* StmtVisitor::createAssignableValue; value is what createExpr gave
createAssignableValue(value, const_check) ==
    IF const_check /\ ~value.mutable
      THEN Assignable("error", "assignment of read-only variable", 0)
    ELSE IF value.ref
      THEN Assignable("ok", "", value.ptr)  \* reference types wrap pointers
    ELSE Assignable("ok", "", getPointerOperand(value))

\* the operators of ast::Assignment::kind() other than unknown are
\* AssignmentOperators; those of ast::PrefixIncrementDecrement::kind():
PrefixOperators == {"++", "--"}

\* StmtVisitor::createAssignment(node, const_check). The load through the
\* address is undefined when the address is null: the compiler crashes
\* there (crash) or goes on to the store
createAssignment(n, const_check, crash) ==
    LET lhs == createAssignableValue(n.lhs, const_check)
    IN  IF lhs.st = "error" THEN Emitted(n.kind, "error", lhs.error, "", 0)
        ELSE IF n.rhs_void      \* verifyVariableType
          THEN Emitted(n.kind, "error",
                       "variable has incomplete type 'void'", "", 0)
        ELSE IF lhs.addr = 0 /\ crash
          THEN Emitted(n.kind, "abort", "", "", 0)
        ELSE IF n.op \notin AssignmentOperators
          THEN Emitted(n.kind, "error", "unknown operator detected", "", 0)
        ELSE Emitted(n.kind, "emitted", "", "store", lhs.addr)

\* StmtVisitor::operator()(const ast::PrefixIncrementDecrement&)
PrefixIncrementDecrement(n, crash) ==
    LET operand == createAssignableValue(n.lhs, TRUE)
    IN  IF operand.st = "error"
          THEN Emitted(n.kind, "error", operand.error, "", 0)
        ELSE IF operand.addr = 0 /\ crash       \* createDereference
          THEN Emitted(n.kind, "abort", "", "", 0)
        ELSE IF n.op \notin PrefixOperators
          THEN Emitted(n.kind, "error", "unknown operator detected", "", 0)
        ELSE Emitted(n.kind, "emitted", "", "store", operand.addr)

\* the assignment arm of expression_visitor::operator()(const
\* ast::binary_op_expr&) of codegen.cxx: the store goes to the alloca of the
\* variable
AssignmentExpr(n) ==
    LET l == binary_op_expr([op |-> n.op, lhs |-> n.lhs, rhs |-> n.rhs])
    IN  IF l.st = "emitted"
          THEN Emitted(n.kind, "emitted", "", "store", n.inst)
          ELSE Emitted(n.kind, l.st, l.error, "", 0)

-----------------------------------------------------------------------------
(* Casts: ExprVisitor::operator()(const ast::Conversion&) of expr.cpp and   *)
(* expression_visitor::operator()(const ast::cast_expr&) of codegen.cxx.    *)
(* A type is "int", "ptr" or "void" (neither integer nor pointer). The      *)
(* builder's CreateIntCast and CreatePointerCast assert the kind of the     *)
(* operand; in a build of LLVM without assertions they create the cast.     *)

\* ExprVisitor::operator()(const ast::Conversion&): n.from is the type of
\* the lowered operand, n.as the target
Conversion(n, assertions) ==
    IF n.as = "int"
      THEN IF n.from # "int" /\ assertions
             THEN Emitted(n.kind, "abort", "", "", 0)
             ELSE Emitted(n.kind, "emitted", "", "intcast", 0)
    ELSE IF n.as = "ptr"
      THEN IF n.from # "ptr" /\ assertions
             THEN Emitted(n.kind, "abort", "", "", 0)
             ELSE Emitted(n.kind, "emitted", "", "ptrcast", 0)
    ELSE Emitted(n.kind, "error", "cannot be converted to type", "", 0)

\* expression_visitor::operator()(const ast::cast_expr&): CreateIntCast to
\* whatever typename_to_type gives
cast_expr(n, assertions) ==
    IF (n.from # "int" \/ n.as # "int") /\ assertions
      THEN Emitted(n.kind, "abort", "", "", 0)
      ELSE Emitted(n.kind, "emitted", "", "intcast", 0)

-----------------------------------------------------------------------------
(* Calls: ExprVisitor::operator()(const ast::FunctionCall&) of expr.cpp and *)
(* expression_visitor::operator()(const ast::function_call_expr&) of        *)
(* codegen.cxx. n.known: module->getFunction found the callee; n.params and *)
(* n.vararg: its parameter types and isVarArg(); n.args: the types of the   *)
(* lowered arguments. Types are LLVM types: "i8", "i32", "ptr".             *)

\* ExprVisitor::operator()(const ast::FunctionCall&). The loop that verifies
\* the arguments runs over the callee's parameters and reads args_value
\* beyond its end when a variadic callee is given fewer arguments than it
\* has parameters: what is read there is undefined, the compiler crashes,
\* finds the types different, or finds them equal (ub)
FunctionCall(n, ub) ==
    IF ~n.known
      THEN Emitted(n.kind, "error", "unknown function referenced", "", 0)
    ELSE IF ~n.vararg /\ Len(n.params) # Len(n.args)
      THEN Emitted(n.kind, "error", "incorrect arguments passed", "", 0)
    ELSE IF \E i \in DOMAIN n.params : i <= Len(n.args)
                                       /\ n.args[i] # n.params[i]
      THEN Emitted(n.kind, "error", "incompatible type for argument", "", 0)
    ELSE IF Len(n.params) > Len(n.args)
      THEN CASE ub = "abort"   -> Emitted(n.kind, "abort", "", "", 0)
             [] ub = "error"   -> Emitted(n.kind, "error",
                                    "incompatible type for argument", "", 0)
             [] ub = "emitted" -> Emitted(n.kind, "emitted", "", "call", 0)
    ELSE Emitted(n.kind, "emitted", "", "call", 0)

\* expression_visitor::operator()(const ast::function_call_expr&): the types
\* of the arguments are not compared; CreateCall asserts the signature in an
\* LLVM built with assertions
function_call_expr(n, assertions) ==
    IF ~n.known
      THEN Emitted(n.kind, "error", "unknown function referenced", "", 0)
    ELSE IF Len(n.params) # Len(n.args)
      THEN Emitted(n.kind, "error", "incorrect arguments passed", "", 0)
    ELSE IF n.args # n.params /\ assertions
      THEN Emitted(n.kind, "abort", "", "", 0)
    ELSE Emitted(n.kind, "emitted", "", "call", 0)

-----------------------------------------------------------------------------
(* Returns: StmtVisitor::operator()(const ast::Return&) of stmt.cpp and     *)
(* statement_visitor::operator()(const ast::return_statement&) of           *)
(* codegen.cxx. n.retval: the type of the lowered result, "none" for a      *)
(* return without one; n.return_type: the declared return type of the       *)
(* function, "void" or an LLVM type.                                        *)

\* StmtVisitor::operator()(const ast::Return&): the type is compared only
\* when there is a result
StmtVisitorReturn(n) ==
    IF n.retval # "none"
      THEN IF n.retval # n.return_type
             THEN Emitted(n.kind, "error",
                          "incompatible type for result type", "", 0)
             ELSE Emitted(n.kind, "emitted", "", "store", 0)
      ELSE Emitted(n.kind, "emitted", "", "br", 0)

\* statement_visitor::operator()(const ast::return_statement&): the result
\* is stored without a comparison of types. In a function returning void
\* retvar is a null pointer and CreateStore goes through it, which is
\* undefined; a store of another type than the slot's is caught by an
\* assertion of the builder where LLVM was built with them (ub: "abort"),
\* and created otherwise (ub: "emitted")
statement_visitor_return(n, ub) ==
    IF n.retval # "none"
      THEN IF n.retval # n.return_type /\ ub = "abort"
             THEN Emitted(n.kind, "abort", "", "", 0)
             ELSE Emitted(n.kind, "emitted", "", "store", 0)
      ELSE Emitted(n.kind, "emitted", "", "br", 0)

-----------------------------------------------------------------------------
(* code_generator (codegen.cxx): the module the constructor fills by        *)
(* lowering the top-level nodes one after the other, and the member         *)
(* functions that emit it or hand it to the JIT.                            *)
(* A top-level node is [kind, name, verifies]: kind "function_declare" or   *)
(* "function_define"; verifies tells whether llvm::verifyFunction accepts    *)
(* what the body of a definition lowers to.                                 *)

\* llvm::Function in the module: the name asked for, the suffix the symbol
\* table of the module added to keep names unique (0: none, the function
\* getFunction(name) finds), and the number of entry blocks, one for every
\* body, that function definitions appended to it
Function(name, suffix, definitions) ==
    [name |-> name, suffix |-> suffix, definitions |-> definitions]

\* codegen_common::module, a std::unique_ptr<llvm::Module>: null once it was
\* moved from
Module(null, functions) == [null |-> null, functions |-> functions]

\* what a visit of a top-level node or a call of a member function did:
\* redefinition: a function_define found a function that had a body;
\* null_module: the call went through the null module pointer
Call(op, res, redefinition, null_module) ==
    [op |-> op, result |-> res, redefinition |-> redefinition,
     null_module |-> null_module]

NoCall == Call("", "", FALSE, FALSE)

CodeGeneratorState(state, optimize, next, module, calls, call) ==
    [state |-> state, optimize |-> optimize, next |-> next,
     module |-> module, calls |-> calls, call |-> call]

NoCodeGenerator ==
    CodeGeneratorState("none", FALSE, 0, Module(TRUE, <<>>), 0, NoCall)

\* llvm::Module::getFunction: the index of the function of that name, 0 for
\* a null pointer
getFunction(functions, name) ==
    LET found == { i \in 1..Len(functions) :
                     functions[i].name = name /\ functions[i].suffix = 0 }
    IN  IF found = {} THEN 0 ELSE CHOOSE i \in found : TRUE

\* llvm::Function::Create(type, linkage, name, module): a new function
\* without blocks; a name the module has already gets a suffix
FunctionCreate(functions, name) ==
    Append(functions,
           Function(name,
                    Cardinality({ i \in 1..Len(functions) :
                                    functions[i].name = name }),
                    0))

\* top_level_stmt_visitor::operator()(const ast::function_declare&)
FunctionDeclare(functions, node) == FunctionCreate(functions, node.name)

\* what a visit answers with: threw, the functions of the module, and the
\* number of bodies the function had when the visit began
TopLevelVisited(threw, functions, bodies_before) ==
    [threw |-> threw, functions |-> functions,
     bodies_before |-> bodies_before]

\* the function passes the constructor added when optimize is set: the
\* control-flow simplification deletes every block the first entry block
\* does not reach, hence the blocks of every body but the first
function_pm_run(optimize, definitions) ==
    IF optimize /\ definitions > 1 THEN 1 ELSE definitions

\* lines 1216-1313: an entry block is appended to the function, the body is
\* lowered behind it, and verifyFunction decides between erasing the whole
\* function and running the function passes. A second body is a group of
\* blocks without predecessors, which the verifier accepts.
DefineBody(functions, function, node, optimize) ==
    IF node.verifies
    THEN TopLevelVisited(FALSE,
                 [functions EXCEPT ![function].definitions =
                     function_pm_run(optimize, @ + 1)],
                 functions[function].definitions)
    ELSE TopLevelVisited(TRUE,
                 [i \in 1..(Len(functions) - 1) |->
                     IF i < function THEN functions[i] ELSE functions[i + 1]],
                 functions[function].definitions)

\* lines 1204-1207, then the body
DefineIn(functions, node, optimize) ==
    DefineBody(functions, getFunction(functions, node.name), node, optimize)

\* top_level_stmt_visitor::operator()(const ast::function_define&)
FunctionDefine(functions, node, optimize) ==
    DefineIn(IF getFunction(functions, node.name) = 0
             THEN FunctionDeclare(functions, node)
             ELSE functions,
             node, optimize)

\* jit->lookup("main"): the symbol is found when main has a body
MainDefined(functions) ==
    \E i \in 1..Len(functions) :
        /\ functions[i].name = "main"
        /\ functions[i].suffix = 0
        /\ functions[i].definitions > 0

-----------------------------------------------------------------------------
(* The skipper (parse.cpp): space | comment, parsed on characters without   *)
(* a skipper of its own. A source is a sequence of characters; a parser is  *)
(* applied at a position and answers with the position behind what it       *)
(* matched, 0 when it does not match. A sequence a >> b fails as a whole    *)
(* when b fails; a Kleene star takes what it can and is not re-entered.     *)

\* x3::lit(s)
lit(src, pos, s) ==
    IF pos > 0 /\ pos + Len(s) - 1 <= Len(src)
       /\ SubSeq(src, pos, pos + Len(s) - 1) = s
      THEN pos + Len(s) ELSE 0

\* x3::eol, and x3::eoi
eol(src, pos) == lit(src, pos, <<"\n">>)

end_of_input(src, pos) == IF pos = Len(src) + 1 THEN pos ELSE 0

\* x3::space
space(src, pos) ==
    IF pos > 0 /\ pos <= Len(src) /\ src[pos] \in {" ", "\n"}
      THEN pos + 1 ELSE 0

\* *(x3::char_ - x3::eol): where the star stops
RECURSIVE RestOfLine(_, _)
RestOfLine(src, pos) ==
    IF pos <= Len(src) /\ eol(src, pos) = 0
      THEN RestOfLine(src, pos + 1) ELSE pos

\* a | b, given what a answered
OrElse(a, b) == IF a # 0 THEN a ELSE b

\* single_line_comment = "//" >> *(char_ - eol) >> (eol | eoi)
LineCommentFrom(src, pos) ==
    IF pos = 0 THEN 0
    ELSE OrElse(eol(src, RestOfLine(src, pos)),
                end_of_input(src, RestOfLine(src, pos)))

single_line_comment(src, pos) ==
    LineCommentFrom(src, lit(src, pos, <<"/", "/">>))

RECURSIVE block_comment(_, _), BlockCommentBody(_, _), BodyStep(_, _, _)

\* *(block_comment | (char_ - "*/")): where the star stops
BlockCommentBody(src, pos) == BodyStep(src, pos, block_comment(src, pos))

\* one turn of the star, given what block_comment answered at pos
BodyStep(src, pos, inner) ==
    IF inner # 0 THEN BlockCommentBody(src, inner)
    ELSE IF pos <= Len(src) /\ lit(src, pos, <<"*", "/">>) = 0
      THEN BlockCommentBody(src, pos + 1)
    ELSE pos

\* block_comment = "/*" >> *(block_comment | (char_ - "*/")) >> "*/"
block_comment(src, pos) ==
    IF lit(src, pos, <<"/", "*">>) = 0 THEN 0
    ELSE lit(src, BlockCommentBody(src, pos + 2), <<"*", "/">>)

\* comment = single_line_comment | block_comment
comment(src, pos) ==
    OrElse(single_line_comment(src, pos), block_comment(src, pos))

\* skipper = x3::space | comment
skipper(src, pos) == OrElse(space(src, pos), comment(src, pos))

-----------------------------------------------------------------------------
(* CGContext (codegen.hpp): the namespace stack and the template registry  *)
(* Table<TemplateTableKey, ast::ClassDef, std::map<TemplateTableKey, ...>>  *)

\* NamespaceStack::push
push(ns, n) == Append(ns, n)

\* a pop that leaves the entry on the stack
popKeeping(ns) == [underflow |-> ns = <<>>, ns |-> ns]

\* NamespaceStack::pop: top(), then pop_back(); on an empty stack top()
\* fails its assertion or reads back() of an empty deque
pop(ns) ==
    [underflow |-> ns = <<>>,
     ns |-> IF ns = <<>> THEN <<>> ELSE SubSeq(ns, 1, Len(ns) - 1)]

\* findFunction with the mangled name of the destructor call: a function
\* of the module or a null pointer (0); the hierarchy is only read
findFunction(ns, class_name, defined) ==
    IF <<ns[Len(ns)].name, class_name>> \in defined THEN 1 ELSE 0

\* findDestructor with its effect on the hierarchy: the class is pushed,
\* the destructor looked up, the class popped
findDestructorIn(ns, class_name, defined) ==
    LET pushed == push(ns, Namespace(class_name, "class"))
    IN  [destructor |-> findFunction(pushed, class_name, defined),
         popped |-> pop(pushed)]

\* TemplateTableKey: std::tuple of name, template parameter length and
\* namespaces
TemplateTableKey(name, arity, ns) == <<name, arity, ns>>

\* std::tuple::operator< on two keys
TemplateTableKeyLess(a, b) ==
    \/ a[1] < b[1]
    \/ /\ ~(b[1] < a[1])
       /\ \/ a[2] < b[2]
          \/ /\ ~(b[2] < a[2])
             /\ NamespaceStackLess(a[3], b[3], 1)

\* std::map::find: the entries whose key is equivalent to the key under
\* the ordering of the keys (at most one)
find(table, key) ==
    { e \in table : /\ ~TemplateTableKeyLess(e[1], key)
                    /\ ~TemplateTableKeyLess(key, e[1]) }

\* Table::operator[]: the value found, or 0 for std::nullopt
subscript(table, key) ==
    IF find(table, key) = {} THEN 0
    ELSE (CHOOSE e \in find(table, key) : TRUE)[2]

\* Table::insert: assert(!table.contains(key)), then emplace, which leaves
\* the map as it is when it holds an equivalent key
insert(table, key, value, assertions) ==
    IF find(table, key) # {}
      THEN [aborted |-> assertions, table |-> table]
      ELSE [aborted |-> FALSE, table |-> table \cup {<<key, value>>}]

\* what an operation on the context gave
ContextCall(op, before, after, underflow, key, found) ==
    [op |-> op, before |-> before, after |-> after, underflow |-> underflow,
     key |-> key, found |-> found]

NoContextCall == ContextCall("", <<>>, <<>>, FALSE, <<0, 0, <<>>>>, 0)

-----------------------------------------------------------------------------
(* The sub-models at rest: the state of each before anything is done to it *)

\* no function parsed or lowered
StmtIdle ==
    /\ ast = None
    /\ hashOrder = <<>>
    /\ phase = "idle"
    /\ cg = NoFunction
    /\ pc = 0
    /\ live = {}
    /\ leaked = {}
    /\ dbl = {}
    /\ via = Instr("", 0, 0, "")

\* CreatedClassTemplateTable() = default: an empty set, no type created
TemplateIdle ==
    /\ created_class_template_table = {}
    /\ typeOwner = <<>>
    /\ request = <<>>
    /\ result = 0

\* nothing compared
OrderIdle ==
    /\ lhsType = Blank
    /\ rhsType = Blank
    /\ compared = [done |-> FALSE, lt |-> FALSE, gt |-> FALSE]

\* no parser constructed; the static error counter starts at zero
ParseIdle ==
    /\ source = <<>>
    /\ total_errors = 0
    /\ outcome = [parsed |-> FALSE, accepted |-> FALSE, consumed |-> FALSE,
                  failures |-> 0, reported |-> 0]
    /\ parsers = 0

\* no expression lowered
ExprIdle ==
    /\ binop = [op |-> "", lhs |-> NoValue, rhs |-> NoValue]
    /\ lowered = Lowered("", "", "", "", NoValue, NoValue, 0)
    /\ operand_values = [lhs |-> 0, rhs |-> 0]
    /\ promoted = [lhs |-> Cast("", 0), rhs |-> Cast("", 0)]

\* no node lowered
LowerIdle ==
    /\ lower_node = [kind |-> ""]
    /\ emitted = NotLowered

\* mergeSymbolTables not called
MergeIdle ==
    /\ merge_a = EmptyTable
    /\ merge_b = EmptyTable
    /\ merged_table = [done |-> FALSE, table |-> EmptyTable]

\* no code_generator constructed
ModuleIdle ==
    /\ program_ast = <<>>
    /\ code_generator = NoCodeGenerator

\* the skipper not applied
SkipIdle ==
    /\ skip_source = <<>>
    /\ skipped = [done |-> FALSE, pos |-> 0]

\* no item entered, nothing registered
ContextIdle ==
    /\ ns_hierarchy = <<>>
    /\ ns_frames = <<>>
    /\ class_template_table = {}
    /\ registrations = <<>>
    /\ context_call = NoContextCall

RestIdle == LowerIdle /\ MergeIdle /\ ModuleIdle /\ SkipIdle /\ ContextIdle

-----------------------------------------------------------------------------
(* Actions of SpecStmt *)

HashOrders ==
    { q \in [1..Cardinality(VarNames) -> VarNames] :
        \A i, j \in DOMAIN q : i # j => q[i] # q[j] }

InitStmt ==
    /\ \E m \in 0..MaxNodes : ast \in FunctionBodies(m)
    /\ hashOrder \in HashOrders
    /\ phase = "parsed"
    /\ cg = NoFunction
    /\ pc = 0
    /\ live = {}
    /\ leaked = {}
    /\ dbl = {}
    /\ via = Instr("", 0, 0, "")
    /\ TemplateIdle /\ OrderIdle /\ ParseIdle /\ ExprIdle /\ RestIdle

\* the function definition is lowered
Lower ==
    /\ phase = "parsed"
    /\ cg' = FunctionDef(ast)
    /\ phase' = "lowered"
    /\ UNCHANGED <<ast, hashOrder, pc, live, leaked, dbl, via>>
    /\ UNCHANGED <<templateVars, orderVars, parseVars, exprVars, restVars>>

\* the function is called
Enter ==
    /\ phase = "lowered"
    /\ phase' = "running"
    /\ pc' = cg.entry_bb
    /\ via' = Instr("call", 0, 0, "")
    /\ UNCHANGED <<ast, hashOrder, cg, live, leaked, dbl>>
    /\ UNCHANGED <<templateVars, orderVars, parseVars, exprVars, restVars>>

\* the block ends in an unconditional branch
StepBr ==
    /\ phase = "running"
    /\ HasTerminator(pc)
    /\ TerminatorOf(pc).op = "br"
    /\ Goto(TerminatorOf(pc).a)

\* the block ends in a conditional branch whose condition is true
StepCondBrTrue ==
    /\ phase = "running"
    /\ HasTerminator(pc)
    /\ TerminatorOf(pc).op = "condbr"
    /\ Goto(TerminatorOf(pc).a)

\* the block ends in a conditional branch whose condition is false
StepCondBrFalse ==
    /\ phase = "running"
    /\ HasTerminator(pc)
    /\ TerminatorOf(pc).op = "condbr"
    /\ Goto(TerminatorOf(pc).b)

\* the end block returns
StepRet ==
    /\ phase = "running"
    /\ HasTerminator(pc)
    /\ TerminatorOf(pc).op = "ret"
    /\ phase' = "returned"
    /\ live' = After(pc).live
    /\ leaked' = After(pc).leaked
    /\ dbl' = After(pc).dbl
    /\ UNCHANGED <<ast, hashOrder, cg, pc, via>>
    /\ UNCHANGED <<templateVars, orderVars, parseVars, exprVars, restVars>>

NextStmt ==
    \/ Lower
    \/ Enter
    \/ StepBr
    \/ StepCondBrTrue
    \/ StepCondBrFalse
    \/ StepRet

SpecStmt == InitStmt /\ [][NextStmt]_vars


-----------------------------------------------------------------------------
(* Claims about destructor scheduling, checked under SpecStmt *)

\* C1: on every path from the entry of a lowered function to its return,
\* every class-typed local with a destructor that was declared on the path
\* has had its destructor invoked exactly once: when the function returns,
\* no declared object is left alive or was overwritten alive, and no
\* destructor ran on an object that was not alive.
C1_DestroyedExactlyOnce ==
    phase = "returned" => live = {} /\ leaked = {} /\ dbl = {}

\* C2: when a break or continue has branched to the loop's end, step or
\* body-entry block, no local declared in that loop's body is still alive:
\* the destructors of the scopes left were run before the branch.
C2_BreakContinueDrains ==
    (phase = "running" /\ via.k \in {"break", "continue"})
        => \A v \in live : cg.vars[v].loop # via.b

\* the allocas a block's destructor calls are made on, in call order
RECURSIVE DestructorCalls(_, _)
DestructorCalls(block, i) ==
    IF i > Len(block) THEN <<>>
    ELSE IF block[i].op = "dtor"
      THEN <<block[i].a>> \o DestructorCalls(block, i + 1)
      ELSE DestructorCalls(block, i + 1)

\* C3: in every destruct block the destructors are invoked in the reverse of
\* the order of declaration (allocas are numbered in declaration order).
C3_ReverseDeclarationOrder ==
    \A bb \in DOMAIN cg.blocks :
        LET calls == DestructorCalls(cg.blocks[bb], 1)
        IN  \A i, j \in DOMAIN calls : i < j => calls[i] > calls[j]

\* the places <<bb, i>> of the instructions of the lowered function that
\* satisfy Test
Places(Test(_)) ==
    { p \in UNION { { <<bb, i>> : i \in DOMAIN cg.blocks[bb] } :
                    bb \in DOMAIN cg.blocks } : Test(cg.blocks[p[1]][p[2]]) }

IsRet(ins) == ins.op = "ret"

IsReturnBranch(ins) == ins.op = "br" /\ ins.k = "return"

InLayout(bb) == \E i \in DOMAIN cg.layout : cg.layout[i] = bb

LoopOf(kind, continue_bb, body_bb, until, loop_end_bb) ==
    [kind |-> kind, continue_bb |-> continue_bb, body_bb |-> body_bb,
     until |-> until, loop_end_bb |-> loop_end_bb]

IsLoopCondBr(ins) == ins.op = "condbr" /\ ins.k = "loop"

IsLoopBr(ins) == ins.op = "br" /\ ins.k = "loop"

\* position of a block in the function (0: not appended)
PositionOf(bb) ==
    IF InLayout(bb) THEN CHOOSE i \in DOMAIN cg.layout : cg.layout[i] = bb
                    ELSE 0

CondLoops ==
    { IF cg.blocks[p[1]][p[2]].b = p[1] + 3
        THEN LoopOf("for", p[1] + 1, p[1] + 2, p[1] + 1, p[1] + 3)
        ELSE LoopOf("while", p[1], p[1] + 1, p[1] + 2, p[1] + 2) :
      p \in Places(IsLoopCondBr) }

PlainLoops ==
    { LoopOf("loop", cg.blocks[p[1]][p[2]].a, cg.blocks[p[1]][p[2]].a,
             cg.blocks[p[1]][p[2]].a + 1, cg.blocks[p[1]][p[2]].a + 1) :
      p \in { q \in Places(IsLoopBr) :
                /\ PositionOf(q[1]) < PositionOf(cg.blocks[q[1]][q[2]].a)
                /\ \A l \in CondLoops :
                     cg.blocks[q[1]][q[2]].a
                         \notin {l.continue_bb, l.body_bb - 1} } }

EmittedLoops == CondLoops \cup PlainLoops

\* the block bb lies in the body of the loop l
InBody(bb, l) ==
    /\ PositionOf(l.body_bb) <= PositionOf(bb)
    /\ PositionOf(bb) < PositionOf(l.until)

\* the loops whose body holds the block, and the innermost of them
EnclosingLoops(bb) == { l \in EmittedLoops : InBody(bb, l) }

Innermost(loops) ==
    CHOOSE l \in loops :
        \A m \in loops : PositionOf(m.body_bb) <= PositionOf(l.body_bb)

IsBreak(ins) == ins.op = "br" /\ ins.k = "break"

IsContinue(ins) == ins.op = "br" /\ ins.k = "continue"

\* C20: a break inside a loop body branches to the end block of the
\* innermost enclosing loop; a continue branches to that loop's step block
\* (for), condition block (while) or body entry (loop); and when a run of
\* the function has taken the branch of a continue in a for loop, control is
\* in the step block, which is not the condition block.
C20_BreakContinueTargets ==
    /\ phase # "parsed" =>
         /\ \A p \in Places(IsBreak) :
              /\ EnclosingLoops(p[1]) # {}
              /\ cg.blocks[p[1]][p[2]].a
                   = Innermost(EnclosingLoops(p[1])).loop_end_bb
         /\ \A p \in Places(IsContinue) :
              /\ EnclosingLoops(p[1]) # {}
              /\ cg.blocks[p[1]][p[2]].a
                   = Innermost(EnclosingLoops(p[1])).continue_bb
    /\ (phase = "running" /\ via.k = "continue") =>
         \A l \in EmittedLoops :
              (l.kind = "for" /\ l.loop_end_bb = via.b)
                  => pc = l.continue_bb /\ pc # l.continue_bb - 1

\* a for loop with a step statement nested in another loop was lowered and
\* run, a continue in its body was taken, and control stands in the step
\* block with the step statement still to run
C20_Witness ==
    /\ phase = "running"
    /\ via.k = "continue"
    /\ Cardinality(EmittedLoops) = 2
    /\ \E l \in EmittedLoops :
         /\ l.kind = "for"
         /\ l.loop_end_bb = via.b
         /\ pc = l.continue_bb
         /\ cg.blocks[pc][1].op = "expr"

\* the same statement with the init statement of every for statement
\* written in front of the for statement, in the block the for statement
\* stands in (a block of its own where it is the single statement of an if
\* or a loop)
RECURSIVE HoistInit(_), HoistInitSeq(_, _)
HoistInit(stmt) ==
    CASE stmt.kind = "CompoundStatement" ->
           CompoundStatement(HoistInitSeq(stmt.kids, 1))
      [] stmt.kind = "For" /\ stmt.kids[1] # None ->
           CompoundStatement(
               <<stmt.kids[1],
                 For(None, HoistInit(stmt.kids[2]), stmt.kids[3])>>)
      [] stmt.kind \in {"If", "Loop", "While", "For"} ->
           [stmt EXCEPT !.kids = [i \in DOMAIN stmt.kids |->
                                     HoistInit(stmt.kids[i])]]
      [] OTHER -> stmt

HoistInitSeq(statements, i) ==
    IF i > Len(statements) THEN <<>>
    ELSE IF statements[i].kind = "For" /\ statements[i].kids[1] # None
      THEN <<statements[i].kids[1],
             For(None, HoistInit(statements[i].kids[2]),
                 statements[i].kids[3])>>
           \o HoistInitSeq(statements, i + 1)
      ELSE <<HoistInit(statements[i])>> \o HoistInitSeq(statements, i + 1)

IsDef(ins) == ins.op = "def"

IsDtor(ins) == ins.op = "dtor"

\* the definitions that stand right in front of the entry of a for loop,
\* where the init statement of the loop is lowered to
IsForInit(p, l) ==
    /\ l.kind = "for"
    /\ p[2] < Len(cg.blocks[p[1]])
    /\ cg.blocks[p[1]][p[2] + 1] = Instr("br", l.body_bb - 2, 0, "loop")

\* the first block of a loop, and the blocks of a loop: from its condition block (its body for a loop
\* statement) up to its end block
LoopEntry(l) ==
    CASE l.kind = "for"   -> l.body_bb - 2
      [] l.kind = "while" -> l.body_bb - 1
      [] OTHER            -> l.body_bb

InLoop(bb, l) ==
    /\ PositionOf(bb) > 0
    /\ PositionOf(LoopEntry(l)) <= PositionOf(bb)
    /\ PositionOf(bb) < PositionOf(l.loop_end_bb)

IsIfBranch(ins) == ins.op = "condbr" /\ ins.k = "if"

\* C23: in the lowered function every basic block has at most one
\* terminator, and a terminator is the last instruction of its block.
C23_OneTerminatorPerBlock ==
    \A bb \in DOMAIN cg.blocks :
        \A i \in DOMAIN cg.blocks[bb] :
            IsTerminator(cg.blocks[bb][i]) => i = Len(cg.blocks[bb])

\* a function was lowered in which a loop holds an if statement whose
\* branches end in a return and in a break
C23_Witness ==
    /\ phase = "lowered"
    /\ Places(IsIfBranch) # {}
    /\ Places(IsReturnBranch) # {}
    /\ Places(IsBreak) # {}
    /\ EmittedLoops # {}

\* a block in which an object "a" with a destructor and an object "b"
\* without one have been defined: the builder and the block's own table
OuterBlock ==
    VisitStatements(
        Visited(BasicBlockCreate(
                    SetInsertPoint(BasicBlockCreateIn(NoFunction), 1)),
                EmptyTable),
        EmptyTable, StmtContext(0, 2, 0, 0),
        <<VariableDef("a", "A"), VariableDef("b", "P")>>, 1)

\* the statements with a scope of their own
HasOwnScope(stmt) ==
    \/ stmt.kind \in {"CompoundStatement", "If", "Loop", "While"}
    \/ stmt.kind = "For" /\ stmt.kids[1] = None

\* C24: a variable defined inside a compound statement, or inside the
\* single-statement body of an if, while, for or loop, is added to that
\* statement's own table only. Visited in a block that has defined "a" and
\* "b", every such statement of the function body leaves the table of the
\* block as it was, bindings of shadowed names included; in the lowered
\* function no variable has a destructor call in more than one destruct
\* block, and no run destroys an object that is not alive.
C24_DefinitionsStayLocal ==
    /\ phase = "lowered" =>
         \A i \in DOMAIN ast.kids :
            HasOwnScope(ast.kids[i]) =>
                StmtVisitor(OuterBlock.ctx, EmptyTable, OuterBlock.scope,
                            StmtContext(0, 2, 0, 0), ast.kids[i]).scope
                    = OuterBlock.scope
    /\ \A v \in DOMAIN cg.vars :
          Cardinality({ d \in Places(IsDtor) :
                          cg.blocks[d[1]][d[2]].a = v }) <= 1
    /\ dbl = {}

\* a function that defines an object "a" and then, in a nested block, a
\* second object of the same name was lowered and run to its return, with
\* both objects destroyed
C24_Witness ==
    /\ phase = "returned"
    /\ ast.kids = <<VariableDef("a", "A"),
                    CompoundStatement(<<VariableDef("a", "A")>>)>>
    /\ Cardinality(Places(IsDtor)) = 2
    /\ live = {}

\* the empty statement, boost::blank
EmptyStatement == Node("Blank", "", "", <<>>)

\* the same statement with every break and continue that stands in no loop
\* replaced by the empty statement
RECURSIVE WithoutStray(_, _)
WithoutStray(stmt, in_loop) ==
    CASE stmt.kind \in {"Break", "Continue"} ->
           IF in_loop THEN stmt ELSE EmptyStatement
      [] stmt.kind \in {"CompoundStatement", "If"} ->
           [stmt EXCEPT !.kids = [i \in DOMAIN stmt.kids |->
                                     WithoutStray(stmt.kids[i], in_loop)]]
      [] stmt.kind \in {"Loop", "While"} ->
           [stmt EXCEPT !.kids = [i \in DOMAIN stmt.kids |->
                                     WithoutStray(stmt.kids[i], TRUE)]]
      [] stmt.kind = "For" ->
           [stmt EXCEPT !.kids[2] = WithoutStray(stmt.kids[2], TRUE)]
      [] OTHER -> stmt

\* C30: a break or continue that stands in no loop emits no branch and
\* raises no error: the function is lowered to what it is lowered to with
\* the empty statement in its place, and a function without a loop holds no
\* branch of a break or continue.
C30_StrayBreakContinueIgnored ==
    phase = "lowered" =>
        /\ cg = FunctionDef(WithoutStray(ast, FALSE))
        /\ EmittedLoops = {} => Places(IsBreak) \cup Places(IsContinue) = {}

\* a function whose body begins with a break and a continue outside any
\* loop was lowered, and the statements behind them as well
C30_Witness ==
    /\ phase = "lowered"
    /\ Len(ast.kids) = 4
    /\ ast.kids[1] = Break
    /\ ast.kids[2] = Continue
    /\ ast.kids[3] = VariableDef("a", "A")
    /\ ast.kids[4] = Return
    /\ Places(IsDef) # {}
    /\ Places(IsReturnBranch) # {}
    /\ Places(IsBreak) \cup Places(IsContinue) = {}

-----------------------------------------------------------------------------
(* SpecTemplate: class templates are instantiated, each through the        *)
(* registry                                                                *)

\* the template argument lists of the instantiations
TemplateArgumentLists ==
    { <<BuiltinType(1)>>, <<BuiltinType(2)>>,
      <<ArrayType(BuiltinType(1), 2)>>, <<ArrayType(BuiltinType(1), 3)>>,
      <<BuiltinType(1), BuiltinType(2)>> }

\* the namespace paths the instantiations are made in
NamespacePaths == { <<>>, <<Namespace(1, "namespace")>> }

InitTemplate ==
    /\ TemplateIdle
    /\ StmtIdle /\ OrderIdle /\ ParseIdle /\ ExprIdle /\ RestIdle

\* a reference to the class template name<args> in the namespace path ns:
\* the registry is asked first; a type is created and registered only if
\* the registry does not know the key
Instantiate(name, args, ns) ==
    LET key   == CreatedClassTemplateTableKey(name, args, ns)
        found == TemplateTableLookup(created_class_template_table, key)
        type  == Len(typeOwner) + 1
    IN  /\ request' = <<name, args, ns>>
        /\ IF found # 0
             THEN /\ result' = found
                  /\ UNCHANGED <<created_class_template_table, typeOwner>>
             ELSE /\ Len(typeOwner) < MaxTypes
                  /\ typeOwner' = Append(typeOwner, <<name, args, ns>>)
                  /\ created_class_template_table' =
                       TemplateTableInsert(created_class_template_table,
                                           key, type)
                  /\ result' = type
        /\ UNCHANGED <<stmtVars, orderVars, parseVars, exprVars, restVars>>

NextTemplate ==
    \E name \in Identifiers, args \in TemplateArgumentLists,
       ns \in NamespacePaths : Instantiate(name, args, ns)

SpecTemplate == InitTemplate /\ [][NextTemplate]_vars

-----------------------------------------------------------------------------
(* SpecOrder: two type ASTs are compared with operator<, both ways *)

InitOrder ==
    /\ lhsType \in TypesOfDepth(MaxTypeDepth)
    /\ rhsType \in TypesOfDepth(MaxTypeDepth)
    /\ compared = [done |-> FALSE, lt |-> FALSE, gt |-> FALSE]
    /\ StmtIdle /\ TemplateIdle /\ ParseIdle /\ ExprIdle /\ RestIdle

Compare ==
    /\ ~compared.done
    /\ compared' = [done |-> TRUE,
                    lt |-> TypeLess(lhsType, rhsType),
                    gt |-> TypeLess(rhsType, lhsType)]
    /\ UNCHANGED <<lhsType, rhsType>>
    /\ UNCHANGED <<stmtVars, templateVars, parseVars, exprVars, restVars>>

NextOrder == Compare

SpecOrder == InitOrder /\ [][NextOrder]_vars

\* C5: two type ASTs are equivalent under operator< (neither is less than
\* the other) if and only if they are structurally equal.
C5_EquivalenceIsEquality ==
    compared.done => ((~compared.lt /\ ~compared.gt) <=> lhsType = rhsType)

-----------------------------------------------------------------------------
(* SpecParse: parsers are constructed, one after the other, each on a      *)
(* source of its own; the constructor parses                               *)

\* the lines the sources are written with
ExternLine == <<"extern", "id", "(", "id", ")", ";">>
FunctionHeader == <<"func", "id", "(", ")", "{">>
FunctionClose == <<"}">>

WellFormedStatements ==
    { <<"id", "=", "id", "+", "int", ";">>,
      <<"var", "id", "=", "int", ";">>,
      <<"if", "(", "id", ")", "ret", "int", ";">> }

\* no statement of the grammar derives these
BrokenStatements ==
    { <<"var", "=", "int", ";">>,
      <<"ret", ";">>,
      <<"int", "+", ";">> }

RECURSIVE StatementLines(_)
StatementLines(n) ==
    IF n = 0 THEN {<<>>}
    ELSE { <<l>> \o r : l \in WellFormedStatements \cup BrokenStatements,
                        r \in StatementLines(n - 1) }

\* a function definition with n statements, its closing brace there or
\* missing; without statements also the empty source and sources that
\* begin with a declaration
Sources(n) ==
    { <<FunctionHeader>> \o body \o after :
        body \in StatementLines(n), after \in {<<>>, <<FunctionClose>>} }
    \cup (IF n = 0
            THEN { <<>>, <<ExternLine>>,
                   <<ExternLine, FunctionHeader, FunctionClose>> }
            ELSE {})

InitParse ==
    /\ ParseIdle
    /\ StmtIdle /\ TemplateIdle /\ OrderIdle /\ ExprIdle /\ RestIdle

\* parser::parser(input, file_path): the members are set and parse() runs
ConstructParser(lines) ==
    /\ parsers < MaxParsers
    /\ parsers' = parsers + 1
    /\ source' = lines
    /\ outcome' = parse(Tokens(lines), total_errors)
    /\ total_errors' = total_errors + outcome'.failures
    /\ UNCHANGED <<stmtVars, templateVars, orderVars, exprVars, restVars>>

NextParse ==
    \E n \in 0..MaxStatements : \E lines \in Sources(n) :
        ConstructParser(lines)

SpecParse == InitParse /\ [][NextParse]_vars

\* C6: parse() hands an AST on only if no expectation failure occurred and
\* the entire input was consumed, and raises its error in every other case.
C6_AcceptedOnlyWithoutError ==
    outcome.parsed =>
        (outcome.accepted <=> (outcome.failures = 0 /\ outcome.consumed))

\* the number of broken statements among the lines from line i on
RECURSIVE BrokenFrom(_, _)
BrokenFrom(lines, i) ==
    IF i > Len(lines) THEN 0
    ELSE (IF lines[i] \in BrokenStatements THEN 1 ELSE 0)
         + BrokenFrom(lines, i + 1)

\* C7: a function whose body holds broken statements among well-formed ones
\* and is closed is rejected, and the parser has recorded exactly one error
\* for each broken statement: it went on behind each of them.
C7_OneErrorPerBrokenStatement ==
    (/\ outcome.parsed
     /\ Len(source) > 0
     /\ source[Len(source)] = FunctionClose
     /\ BrokenFrom(source, 1) >= 1)
        => /\ ~outcome.accepted
           /\ outcome.failures = BrokenFrom(source, 1)

\* C26: the number of errors a rejected parse reports is the number of
\* expectation failures of that parse; failures recorded while an earlier
\* parser of the process parsed its source are not in it.
C26_ReportCoversOneParse ==
    (outcome.parsed /\ ~outcome.accepted) =>
        outcome.reported = outcome.failures

-----------------------------------------------------------------------------
(* SpecExpr: one binary operator expression is lowered, by the visitor of  *)
(* expr.cpp or by the visitor of codegen.cxx                               *)

IntegerWidths == {8, 32, 64}

\* integer rvalues and variables of every width and signedness, and two
\* pointers to different pointees
Operands ==
    { Value("int", w, g, FALSE, FALSE) : w \in IntegerWidths, g \in BOOLEAN }
    \cup { Value("int", w, g, TRUE, m) :
             w \in IntegerWidths, g \in BOOLEAN, m \in BOOLEAN }
    \cup { Value("ptr", w, FALSE, FALSE, FALSE) : w \in {8, 32} }

\* the values an operand takes at run time: the ends and the middle of
\* the range of an 8-bit integer by its signedness, small values of a wider
\* one, nothing to tell of a pointer
IntegerValues(v) ==
    IF v.kind # "int" THEN {0}
    ELSE IF v.bits = 8
      THEN (IF v.signed THEN {-128, -1, 0, 127} ELSE {0, 127, 128, 255})
    ELSE {0, 1}

InitExpr ==
    /\ binop \in [op : BinOpOperators \cup AssignmentOperators,
                  lhs : Operands, rhs : Operands]
    /\ lowered = Lowered("", "", "", "", NoValue, NoValue, 0)
    /\ operand_values \in [lhs : IntegerValues(binop.lhs),
                           rhs : IntegerValues(binop.rhs)]
    /\ promoted = [lhs |-> Cast("", 0), rhs |-> Cast("", 0)]
    /\ StmtIdle /\ TemplateIdle /\ OrderIdle /\ ParseIdle /\ RestIdle

\* expr.cpp lowers the expression, in a build with or without assertions
LowerBinOp ==
    /\ lowered.by = ""
    /\ \E assertions \in BOOLEAN : lowered' = BinOp(binop, assertions)
    /\ promoted' = CastsOf(binop,
                           IntegerImplicitConversion(binop.lhs, binop.rhs),
                           operand_values)
    /\ UNCHANGED <<binop, operand_values>>
    /\ UNCHANGED <<stmtVars, templateVars, orderVars, parseVars, restVars>>

\* codegen.cxx lowers the expression
LowerBinaryOpExpr ==
    /\ lowered.by = ""
    /\ lowered' = binary_op_expr(binop)
    /\ promoted' = [lhs |-> Cast("", operand_values.lhs),
                    rhs |-> Cast("", operand_values.rhs)]
    /\ UNCHANGED <<binop, operand_values>>
    /\ UNCHANGED <<stmtVars, templateVars, orderVars, parseVars, restVars>>

NextExpr ==
    \/ LowerBinOp
    \/ LowerBinaryOpExpr

SpecExpr == InitExpr /\ [][NextExpr]_vars

\* C8: lowering a binary operator either emits an operation whose operands
\* have one type, signedness included, or fails with the error that the
\* operands are not of the same type.
C8_OperandsOfTheSameType ==
    lowered.by = "BinOp" =>
        \/ /\ lowered.st = "emitted"
           /\ getType(lowered.lhs) = getType(lowered.rhs)
           /\ lowered.lhs.signed = lowered.rhs.signed
        \/ /\ lowered.st = "error"
           /\ lowered.error =
                "both operands to a binary operator are not of the same type"

\* C9: after the implicit conversion of two integer operands both have the
\* width of the wider one; if the widths differed both have the signedness
\* of the wider one, and if the widths were equal and the signednesses
\* differed both are unsigned.
C9_IntegerPromotion ==
    (/\ lowered.by = "BinOp"
     /\ binop.lhs.kind = "int"
     /\ binop.rhs.kind = "int"
     /\ binop.op \in BinOpOperators)
        => LET l == binop.lhs
               r == binop.rhs
               wider == IF l.bits > r.bits THEN l ELSE r
           IN  /\ lowered.st = "emitted"
               /\ lowered.lhs.bits = wider.bits
               /\ lowered.rhs.bits = wider.bits
               /\ l.bits # r.bits =>
                    /\ lowered.lhs.signed = wider.signed
                    /\ lowered.rhs.signed = wider.signed
               /\ (l.bits = r.bits /\ l.signed # r.signed) =>
                    /\ ~lowered.lhs.signed
                    /\ ~lowered.rhs.signed

\* C10: codegen.cxx divides, takes the remainder and compares for order with
\* the unsigned instruction when both operands are unsigned and with the
\* signed one when both are signed, and every comparison yields the 8-bit
\* boolean.
C10_SignednessOfOperation ==
    (lowered.by = "binary_op_expr" /\ lowered.st = "emitted") =>
        /\ (/\ binop.op \in {"/", "/=", "%", "%=", "<", ">", "<=", ">="}
            /\ binop.lhs.signed = binop.rhs.signed)
              => lowered.opcode =
                   CASE binop.op \in {"/", "/="} ->
                          IF binop.lhs.signed THEN "sdiv" ELSE "udiv"
                     [] binop.op \in {"%", "%="} ->
                          IF binop.lhs.signed THEN "srem" ELSE "urem"
                     [] binop.op = "<" ->
                          IF binop.lhs.signed THEN "icmp slt" ELSE "icmp ult"
                     [] binop.op = ">" ->
                          IF binop.lhs.signed THEN "icmp sgt" ELSE "icmp ugt"
                     [] binop.op = "<=" ->
                          IF binop.lhs.signed THEN "icmp sle" ELSE "icmp ule"
                     [] binop.op = ">=" ->
                          IF binop.lhs.signed THEN "icmp sge" ELSE "icmp uge"
        /\ binop.op \in {"==", "!=", "<", ">", "<=", ">="}
              => lowered.bits = 8

\* C27: the implicit conversion widens the narrower of two integer operands
\* by its own signedness, a signed operand with a sign extension and an
\* unsigned one with a zero extension, whatever the signedness of the wider
\* operand; the value of an unsigned operand, and of a signed operand that
\* is widened to a signed type, is the same after the conversion.
C27_PromotionPreservesValue ==
    (/\ lowered.by = "BinOp"
     /\ binop.lhs.kind = "int"
     /\ binop.rhs.kind = "int"
     /\ binop.lhs.bits # binop.rhs.bits)
        => LET side   == IF binop.lhs.bits < binop.rhs.bits
                           THEN "lhs" ELSE "rhs"
               narrow == binop[side]
               wider  == IF side = "lhs" THEN binop.rhs ELSE binop.lhs
           IN  /\ promoted[side].opcode =
                    (IF narrow.signed THEN "sext" ELSE "zext")
               /\ (~narrow.signed \/ wider.signed) =>
                    promoted[side].value = operand_values[side]

-----------------------------------------------------------------------------
(* SpecLower: one node is lowered by the visitor that handles its kind     *)

\* the expressions a target is written as, and what lowering them gives:
\* locals, member accesses and subscripts load through an address,
\* references wrap one; a literal is a constant and a call result the call
\* instruction, neither has a pointer operand and neither is mutable
AddressableTargets == {"local", "member", "subscript", "reference"}

NonAddressableTargets == {"literal", "call"}

TargetValue(target, mutable) ==
    CASE target = "local"     -> CGValue("load", 1, mutable, FALSE)
      [] target = "member"    -> CGValue("load", 2, mutable, FALSE)
      [] target = "subscript" -> CGValue("load", 3, mutable, FALSE)
      [] target = "reference" -> CGValue("load", 4, mutable, TRUE)
      [] target = "literal"   -> CGValue("const", 0, FALSE, FALSE)
      [] target = "call"      -> CGValue("call", 0, FALSE, FALSE)

\* assignments, class member initialisations and prefix operators of
\* stmt.cpp
StoreNodes ==
    { [kind |-> k, op |-> o, target |-> t, lhs |-> TargetValue(t, m),
       rhs_void |-> v] :
        k \in {"Assignment", "ClassMemberInit"}, o \in AssignmentOperators,
        t \in AddressableTargets \cup NonAddressableTargets,
        m \in BOOLEAN, v \in BOOLEAN }
    \cup
    { [kind |-> "PrefixIncrementDecrement", op |-> o, target |-> t,
       lhs |-> TargetValue(t, m), rhs_void |-> FALSE] :
        o \in PrefixOperators,
        t \in AddressableTargets \cup NonAddressableTargets, m \in BOOLEAN }

\* assignments of codegen.cxx: to a variable of the scope, mutable or not,
\* or to an expression that is no variable
AssignmentExprNodes ==
    { [kind |-> "binary_op_expr", op |-> o,
       target |-> IF var THEN "local" ELSE "literal",
       lhs |-> Value("int", 32, TRUE, var, var /\ m),
       rhs |-> Value("int", 32, TRUE, FALSE, FALSE), inst |-> 1] :
        o \in AssignmentOperators, var \in BOOLEAN, m \in BOOLEAN }

\* casts of a value of one kind of type to a type of another
TypeKinds == {"int", "ptr", "void"}

CastNodes ==
    { [kind |-> k, from |-> f, as |-> t, target |-> ""] :
        k \in {"Conversion", "cast_expr"}, f \in {"int", "ptr"},
        t \in TypeKinds }

\* calls: up to MaxArguments parameters and arguments of three types; a
\* function of codegen.cxx is never variadic (FunctionType::get(.., false))
LLVMTypes == {"i8", "i32", "ptr"}

TypeLists == UNION { [1..k -> LLVMTypes] : k \in 0..MaxArguments }

CallNodes ==
    { [kind |-> "FunctionCall", known |-> kn, vararg |-> va, params |-> ps,
       args |-> as, target |-> ""] :
        kn \in BOOLEAN, va \in BOOLEAN, ps \in TypeLists, as \in TypeLists }
    \cup
    { [kind |-> "function_call_expr", known |-> kn, vararg |-> FALSE,
       params |-> ps, args |-> as, target |-> ""] :
        kn \in BOOLEAN, ps \in TypeLists, as \in TypeLists }

\* returns: with and without a result, in functions of every return type
ReturnNodes ==
    { [kind |-> k, retval |-> v, return_type |-> t, target |-> ""] :
        k \in {"Return", "return_statement"},
        v \in LLVMTypes \cup {"none"}, t \in LLVMTypes \cup {"void"} }

LoweredNodes ==
    StoreNodes \cup AssignmentExprNodes \cup CastNodes \cup CallNodes
    \cup ReturnNodes

InitLower ==
    /\ lower_node \in LoweredNodes
    /\ emitted = NotLowered
    /\ StmtIdle /\ TemplateIdle /\ OrderIdle /\ ParseIdle /\ ExprIdle
    /\ MergeIdle /\ ModuleIdle /\ SkipIdle /\ ContextIdle

\* operator()(const ast::Assignment&)
LowerAssignment ==
    /\ emitted.by = ""
    /\ lower_node.kind = "Assignment"
    /\ \E crash \in BOOLEAN : emitted' = createAssignment(lower_node, TRUE, crash)
    /\ UNCHANGED lower_node
    /\ UNCHANGED <<stmtVars, templateVars, orderVars, parseVars, exprVars>>
    /\ UNCHANGED <<mergeVars, moduleVars, skipVars, contextVars>>

\* operator()(const ast::ClassMemberInit&)
LowerClassMemberInit ==
    /\ emitted.by = ""
    /\ lower_node.kind = "ClassMemberInit"
    /\ \E crash \in BOOLEAN : emitted' = createAssignment(lower_node, FALSE, crash)
    /\ UNCHANGED lower_node
    /\ UNCHANGED <<stmtVars, templateVars, orderVars, parseVars, exprVars>>
    /\ UNCHANGED <<mergeVars, moduleVars, skipVars, contextVars>>

\* operator()(const ast::PrefixIncrementDecrement&)
LowerPrefixIncrementDecrement ==
    /\ emitted.by = ""
    /\ lower_node.kind = "PrefixIncrementDecrement"
    /\ \E crash \in BOOLEAN : emitted' = PrefixIncrementDecrement(lower_node, crash)
    /\ UNCHANGED lower_node
    /\ UNCHANGED <<stmtVars, templateVars, orderVars, parseVars, exprVars>>
    /\ UNCHANGED <<mergeVars, moduleVars, skipVars, contextVars>>

\* codegen.cxx lowers an assignment
LowerAssignmentExpr ==
    /\ emitted.by = ""
    /\ lower_node.kind = "binary_op_expr"
    /\ emitted' = AssignmentExpr(lower_node)
    /\ UNCHANGED lower_node
    /\ UNCHANGED <<stmtVars, templateVars, orderVars, parseVars, exprVars>>
    /\ UNCHANGED <<mergeVars, moduleVars, skipVars, contextVars>>

\* expr.cpp lowers a cast, with an LLVM built with or without assertions
LowerConversion ==
    /\ emitted.by = ""
    /\ lower_node.kind = "Conversion"
    /\ \E assertions \in BOOLEAN :
          emitted' = Conversion(lower_node, assertions)
    /\ UNCHANGED lower_node
    /\ UNCHANGED <<stmtVars, templateVars, orderVars, parseVars, exprVars>>
    /\ UNCHANGED <<mergeVars, moduleVars, skipVars, contextVars>>

\* codegen.cxx lowers a cast
LowerCastExpr ==
    /\ emitted.by = ""
    /\ lower_node.kind = "cast_expr"
    /\ \E assertions \in BOOLEAN :
          emitted' = cast_expr(lower_node, assertions)
    /\ UNCHANGED lower_node
    /\ UNCHANGED <<stmtVars, templateVars, orderVars, parseVars, exprVars>>
    /\ UNCHANGED <<mergeVars, moduleVars, skipVars, contextVars>>

\* expr.cpp lowers a call
LowerFunctionCall ==
    /\ emitted.by = ""
    /\ lower_node.kind = "FunctionCall"
    /\ \E ub \in {"abort", "error", "emitted"} :
          emitted' = FunctionCall(lower_node, ub)
    /\ UNCHANGED lower_node
    /\ UNCHANGED <<stmtVars, templateVars, orderVars, parseVars, exprVars>>
    /\ UNCHANGED <<mergeVars, moduleVars, skipVars, contextVars>>

\* codegen.cxx lowers a call
LowerFunctionCallExpr ==
    /\ emitted.by = ""
    /\ lower_node.kind = "function_call_expr"
    /\ \E assertions \in BOOLEAN :
          emitted' = function_call_expr(lower_node, assertions)
    /\ UNCHANGED lower_node
    /\ UNCHANGED <<stmtVars, templateVars, orderVars, parseVars, exprVars>>
    /\ UNCHANGED <<mergeVars, moduleVars, skipVars, contextVars>>

\* stmt.cpp lowers a return
LowerReturn ==
    /\ emitted.by = ""
    /\ lower_node.kind = "Return"
    /\ emitted' = StmtVisitorReturn(lower_node)
    /\ UNCHANGED lower_node
    /\ UNCHANGED <<stmtVars, templateVars, orderVars, parseVars, exprVars>>
    /\ UNCHANGED <<mergeVars, moduleVars, skipVars, contextVars>>

\* codegen.cxx lowers a return
LowerReturnStatement ==
    /\ emitted.by = ""
    /\ lower_node.kind = "return_statement"
    /\ \E ub \in {"abort", "emitted"} :
          emitted' = statement_visitor_return(lower_node, ub)
    /\ UNCHANGED lower_node
    /\ UNCHANGED <<stmtVars, templateVars, orderVars, parseVars, exprVars>>
    /\ UNCHANGED <<mergeVars, moduleVars, skipVars, contextVars>>

NextLower ==
    \/ LowerAssignment
    \/ LowerClassMemberInit
    \/ LowerPrefixIncrementDecrement
    \/ LowerAssignmentExpr
    \/ LowerConversion
    \/ LowerCastExpr
    \/ LowerFunctionCall
    \/ LowerFunctionCallExpr
    \/ LowerReturn
    \/ LowerReturnStatement

SpecLower == InitLower /\ [][NextLower]_vars

\* C11: a direct or compound assignment or a prefix ++/-- whose target is a
\* binding that is not mutable ends in the error 'assignment of read-only
\* variable' and creates no store; a class member initialisation writes an
\* immutable member: it stores to the member's address.
C11_ReadOnlyNotStored ==
    /\ (/\ emitted.by \in {"Assignment", "PrefixIncrementDecrement",
                           "binary_op_expr"}
        /\ lower_node.target \in AddressableTargets
        /\ ~lower_node.lhs.mutable)
         => /\ emitted.st = "error"
            /\ emitted.error = "assignment of read-only variable"
            /\ emitted.inst # "store"
    /\ (/\ emitted.by = "ClassMemberInit"
        /\ lower_node.target \in AddressableTargets
        /\ ~lower_node.rhs_void)
         => /\ emitted.st = "emitted"
            /\ emitted.inst = "store"
            /\ emitted.addr = lower_node.lhs.ptr

\* a compound assignment to an immutable local was rejected
C11_Witness ==
    /\ emitted.by = "Assignment"
    /\ lower_node.op = "+="
    /\ lower_node.target = "local"
    /\ ~lower_node.lhs.mutable
    /\ emitted.st = "error"

C13_CastOnlyWithinKind ==
    emitted.by \in {"Conversion", "cast_expr"} =>
        IF lower_node.from = lower_node.as /\ lower_node.as \in {"int", "ptr"}
          THEN emitted.st = "emitted"
          ELSE emitted.st = "error" /\ emitted.inst = ""

\* an argument type matches a parameter type after the implicit integer
\* widening that is permitted
MatchesAfterWidening(arg, param) ==
    arg = param \/ (arg = "i8" /\ param = "i32")

\* the callee is known, the number of arguments is that of the parameters
\* unless the callee is variadic, and every parameter has an argument whose
\* type matches
CallIsValid(n) ==
    /\ n.known
    /\ n.vararg \/ Len(n.args) = Len(n.params)
    /\ \A i \in DOMAIN n.params :
          i <= Len(n.args) /\ MatchesAfterWidening(n.args[i], n.params[i])

\* C14: a call instruction is created only for a valid call (known callee,
\* arity, argument types); every other call ends in an error and creates no
\* call instruction.
C14_CallOnlyWhenValid ==
    emitted.by \in {"FunctionCall", "function_call_expr"} =>
        /\ emitted.inst = "call" => CallIsValid(lower_node)
        /\ ~CallIsValid(lower_node) =>
              emitted.st = "error" /\ emitted.inst # "call"

\* C28: a call of a variadic callee that passes fewer arguments than the
\* callee has fixed parameters is rejected with an error: the validation of
\* the arguments reads no argument that was not supplied.
C28_VariadicCallWithTooFewArguments ==
    (/\ emitted.by = "FunctionCall"
     /\ lower_node.known
     /\ lower_node.vararg
     /\ Len(lower_node.args) < Len(lower_node.params))
        => emitted.st = "error"

\* the result of a return matches the declared return type: the types are
\* the same, or there is no result and the function returns void
ReturnMatches(n) ==
    IF n.retval = "none" THEN n.return_type = "void"
                         ELSE n.retval = n.return_type

\* C18: a return whose result does not match the declared return type of
\* the function (a result of another type, or no result in a function that
\* does not return void) ends in an error and creates no store into the
\* return slot.
C18_ReturnMatchesDeclaredType ==
    (emitted.by \in {"Return", "return_statement"}
     /\ ~ReturnMatches(lower_node))
        => emitted.st = "error" /\ emitted.inst # "store"

-----------------------------------------------------------------------------
(* SpecMerge: mergeSymbolTables is called on two symbol tables             *)

\* the variables the tables bind names to
Variables == 1..3

\* the symbol tables over VarNames
SymbolTables ==
    UNION { [names -> Variables] : names \in SUBSET VarNames }

InitMerge ==
    /\ merge_a \in SymbolTables
    /\ merge_b \in SymbolTables
    /\ merged_table = [done |-> FALSE, table |-> EmptyTable]
    /\ hashOrder \in HashOrders
    /\ ast = None
    /\ phase = "idle"
    /\ cg = NoFunction
    /\ pc = 0
    /\ live = {}
    /\ leaked = {}
    /\ dbl = {}
    /\ via = Instr("", 0, 0, "")
    /\ TemplateIdle /\ OrderIdle /\ ParseIdle /\ ExprIdle /\ LowerIdle
    /\ ModuleIdle /\ SkipIdle /\ ContextIdle

\* mergeSymbolTables(a, b): both arguments are references to const
Merge ==
    /\ ~merged_table.done
    /\ merged_table' = [done |-> TRUE, table |-> mergeSymbolTables(merge_a, merge_b)]
    /\ UNCHANGED <<merge_a, merge_b>>
    /\ UNCHANGED <<stmtVars, templateVars, orderVars, parseVars, exprVars>>
    /\ UNCHANGED <<lowerVars, moduleVars, skipVars, contextVars>>

NextMerge == Merge

SpecMerge == InitMerge /\ [][NextMerge]_vars

\* C15: the table mergeSymbolTables(parent, local) returns binds exactly the
\* names bound in parent or in local, a name bound in local as local binds
\* it (also when parent binds it), every other name as parent binds it; and
\* the call leaves both arguments as they were.
C15_LocalShadowsParent ==
    /\ [](merged_table.done =>
            /\ DOMAIN merged_table.table = DOMAIN merge_a \cup DOMAIN merge_b
            /\ \A n \in DOMAIN merge_b : merged_table.table[n] = merge_b[n]
            /\ \A n \in DOMAIN merge_a \ DOMAIN merge_b :
                  merged_table.table[n] = merge_a[n])
    /\ [][merge_a' = merge_a /\ merge_b' = merge_b]_vars

\* two tables were merged_table that bind one name to different variables, and
\* the parent binds a name that the local table does not
C15_Witness ==
    /\ merged_table.done
    /\ \E n \in DOMAIN merge_a \cap DOMAIN merge_b : merge_a[n] # merge_b[n]
    /\ DOMAIN merge_a \ DOMAIN merge_b # {}


-----------------------------------------------------------------------------
(* SpecModule: a code_generator is constructed over a program, which lowers *)
(* the top-level nodes in order (code_generator::codegen), and then its     *)
(* member functions are called in any order.                                *)

FunctionNames == {"f", "main"}

TopLevelNodes ==
    [kind : {"function_declare"}, name : FunctionNames, verifies : {TRUE}]
    \cup [kind : {"function_define"}, name : FunctionNames,
          verifies : BOOLEAN]

Programs(n) == UNION { [1..k -> TopLevelNodes] : k \in 0..n }

\* what a run through the null module pointer can do
NullDereference == {"crash", "undefined"}

InitModule ==
    /\ program_ast \in Programs(MaxTopLevel)
    /\ \E optimize \in BOOLEAN :
         code_generator =
             CodeGeneratorState(IF program_ast = <<>> THEN "constructed"
                                                     ELSE "codegen",
                                optimize, 1, Module(FALSE, <<>>), 0, NoCall)
    /\ StmtIdle /\ TemplateIdle /\ OrderIdle /\ ParseIdle /\ ExprIdle
    /\ LowerIdle /\ MergeIdle /\ SkipIdle /\ ContextIdle

\* the state of the generator behind the visit of one top-level node: an
\* exception leaves the constructor
AfterVisit(g, op, visited) ==
    CodeGeneratorState(IF visited.threw THEN "failed"
                       ELSE IF g.next = Len(program_ast) THEN "constructed"
                       ELSE "codegen",
                       g.optimize, g.next + 1,
                       Module(FALSE, visited.functions), g.calls,
                       Call(op, IF visited.threw THEN "error" ELSE "lowered",
                            visited.bodies_before > 0, FALSE))

\* code_generator::codegen, one turn of its loop on a function_declare
VisitFunctionDeclare ==
    /\ code_generator.state = "codegen"
    /\ program_ast[code_generator.next].kind = "function_declare"
    /\ code_generator' =
           AfterVisit(code_generator, "function_declare",
                      TopLevelVisited(FALSE,
                              FunctionDeclare(
                                  code_generator.module.functions,
                                  program_ast[code_generator.next]),
                              0))
    /\ UNCHANGED program_ast
    /\ UNCHANGED <<stmtVars, templateVars, orderVars, parseVars, exprVars>>
    /\ UNCHANGED <<lowerVars, mergeVars, skipVars, contextVars>>

\* code_generator::codegen, one turn of its loop on a function_define
VisitFunctionDefine ==
    /\ code_generator.state = "codegen"
    /\ program_ast[code_generator.next].kind = "function_define"
    /\ code_generator' =
           AfterVisit(code_generator, "function_define",
                      FunctionDefine(code_generator.module.functions,
                                      program_ast[code_generator.next],
                                      code_generator.optimize))
    /\ UNCHANGED program_ast
    /\ UNCHANGED <<stmtVars, templateVars, orderVars, parseVars, exprVars>>
    /\ UNCHANGED <<lowerVars, mergeVars, skipVars, contextVars>>

\* the state of the generator behind a call of a member function; a crash
\* ends the process
AfterCall(g, module, call) ==
    CodeGeneratorState(IF call.result = "crash" THEN "crashed" ELSE g.state,
                       g.optimize, g.next, module, g.calls + 1, call)

\* common.module->print(os, nullptr) and pm.run(*common.module)
UseModule(g, op, written, ub) ==
    AfterCall(g, g.module,
              IF g.module.null THEN Call(op, ub, FALSE, TRUE)
                               ELSE Call(op, written, FALSE, FALSE))

\* code_generator::write_llvm_ir_to_file; ostream_ec: the file did not open
write_llvm_ir_to_file(g, ostream_ec, ub) ==
    IF ostream_ec
    THEN AfterCall(g, g.module,
                   Call("write_llvm_ir_to_file", "error", FALSE, FALSE))
    ELSE UseModule(g, "write_llvm_ir_to_file", "written", ub)

\* code_generator::write_object_code_to_file; cannot_emit: what
\* addPassesToEmitFile answered
write_object_code_to_file(g, ostream_ec, cannot_emit, ub) ==
    IF ostream_ec \/ cannot_emit
    THEN AfterCall(g, g.module,
                   Call("write_object_code_to_file", "error", FALSE, FALSE))
    ELSE UseModule(g, "write_object_code_to_file", "written", ub)

\* code_generator::jit_compile; create_error and add_error: what
\* jit_compiler::create and add_module answered. The module and the context
\* are moved into the call of add_module whatever it answers.
jit_compile(g, create_error, add_error, ub) ==
    IF create_error
    THEN AfterCall(g, g.module, Call("jit_compile", "error", FALSE, FALSE))
    ELSE IF g.module.null
    THEN AfterCall(g, g.module, Call("jit_compile", ub, FALSE, TRUE))
    ELSE AfterCall(g, Module(TRUE, <<>>),
                   Call("jit_compile",
                        IF add_error \/ ~MainDefined(g.module.functions)
                        THEN "error" ELSE "returned",
                        FALSE, FALSE))

Callable ==
    /\ code_generator.state = "constructed"
    /\ code_generator.calls < MaxCalls

WriteLlvmIrToFile ==
    /\ Callable
    /\ \E ostream_ec \in BOOLEAN, ub \in NullDereference :
         code_generator' =
             write_llvm_ir_to_file(code_generator, ostream_ec, ub)
    /\ UNCHANGED program_ast
    /\ UNCHANGED <<stmtVars, templateVars, orderVars, parseVars, exprVars>>
    /\ UNCHANGED <<lowerVars, mergeVars, skipVars, contextVars>>

WriteObjectCodeToFile ==
    /\ Callable
    /\ \E ostream_ec \in BOOLEAN, cannot_emit \in BOOLEAN,
          ub \in NullDereference :
         code_generator' =
             write_object_code_to_file(code_generator, ostream_ec,
                                       cannot_emit, ub)
    /\ UNCHANGED program_ast
    /\ UNCHANGED <<stmtVars, templateVars, orderVars, parseVars, exprVars>>
    /\ UNCHANGED <<lowerVars, mergeVars, skipVars, contextVars>>

JitCompile ==
    /\ Callable
    /\ \E create_error \in BOOLEAN, add_error \in BOOLEAN,
          ub \in NullDereference :
         code_generator' =
             jit_compile(code_generator, create_error, add_error, ub)
    /\ UNCHANGED program_ast
    /\ UNCHANGED <<stmtVars, templateVars, orderVars, parseVars, exprVars>>
    /\ UNCHANGED <<lowerVars, mergeVars, skipVars, contextVars>>

NextModule ==
    \/ VisitFunctionDeclare
    \/ VisitFunctionDefine
    \/ WriteLlvmIrToFile
    \/ WriteObjectCodeToFile
    \/ JitCompile

SpecModule == InitModule /\ [][NextModule]_vars

\* C16: after any sequence of top-level lowerings every function of the
\* module has at most one body, that is at most one entry block added by a
\* definition, and the lowering of a definition of a name that had a body
\* has raised an error.
C16_OneDefinitionPerName ==
    /\ \A i \in 1..Len(code_generator.module.functions) :
         code_generator.module.functions[i].definitions <= 1
    /\ (code_generator.call.op = "function_define"
        /\ code_generator.call.redefinition)
       => code_generator.call.result = "error"

\* C19: no call of a member function goes through the module pointer after
\* jit_compile has moved the module out of the generator.
C19_MovedModuleNotUsed == ~code_generator.call.null_module


-----------------------------------------------------------------------------
(* SpecSkip: the skipper is applied once at the beginning of a source.     *)

Chars == {"/", "*", "x", "\n"}

CharSources(n) == UNION { [1..k -> Chars] : k \in 0..n }

InitSkip ==
    /\ skip_source \in CharSources(MaxChars)
    /\ skipped = [done |-> FALSE, pos |-> 0]
    /\ StmtIdle /\ TemplateIdle /\ OrderIdle /\ ParseIdle /\ ExprIdle
    /\ LowerIdle /\ MergeIdle /\ ModuleIdle /\ ContextIdle

Skip ==
    /\ ~skipped.done
    /\ skipped' = [done |-> TRUE, pos |-> skipper(skip_source, 1)]
    /\ UNCHANGED skip_source
    /\ UNCHANGED <<stmtVars, templateVars, orderVars, parseVars, exprVars>>
    /\ UNCHANGED <<lowerVars, mergeVars, moduleVars, contextVars>>

NextSkip == Skip

SpecSkip == InitSkip /\ [][NextSkip]_vars

\* where the block comment opened before pos ends by counting: "/*" opens
\* one more level, "*/" closes one, the comment ends behind the "*/" that
\* closes the first level; 0 when the end of the source comes first
RECURSIVE NestedEnd(_, _, _)
NestedEnd(src, pos, depth) ==
    IF depth = 0 THEN pos
    ELSE IF pos > Len(src) THEN 0
    ELSE IF lit(src, pos, <<"/", "*">>) # 0
      THEN NestedEnd(src, pos + 2, depth + 1)
    ELSE IF lit(src, pos, <<"*", "/">>) # 0
      THEN NestedEnd(src, pos + 2, depth - 1)
    ELSE NestedEnd(src, pos + 1, depth)

\* where the line that holds pos ends: behind its end-of-line character, or
\* at the end of the source
RECURSIVE LineEnd(_, _)
LineEnd(src, pos) ==
    IF pos > Len(src) THEN pos
    ELSE IF src[pos] = "\n" THEN pos + 1
    ELSE LineEnd(src, pos + 1)

\* C22: a source that begins with "/*" is skipped as a comment up to the
\* "*/" that balances the opening, inner pairs included, and is not skipped
\* when the nesting is never balanced; a source that begins with "//" is
\* skipped up to the next end of line or the end of the source.
C22_NestedBlockComments ==
    skipped.done =>
        /\ lit(skip_source, 1, <<"/", "*">>) # 0
             => skipped.pos = NestedEnd(skip_source, 3, 1)
        /\ lit(skip_source, 1, <<"/", "/">>) # 0
             => skipped.pos = LineEnd(skip_source, 3)

-----------------------------------------------------------------------------
(* SpecContext: namespace and class items are entered and left, nested in  *)
(* each other; inside them class templates are registered and looked up    *)
(* under the current hierarchy, and destructors are looked up              *)

NamespaceKinds == {"namespace", "class"}

TemplateArities == {1, 2}

\* the classes that define a destructor: <<enclosing name, class name>>
DefinedDestructors == {<<1, 1>>, <<2, 2>>}

InitContext ==
    /\ ContextIdle
    /\ StmtIdle /\ TemplateIdle /\ OrderIdle /\ ParseIdle /\ ExprIdle
    /\ LowerIdle /\ MergeIdle /\ ModuleIdle /\ SkipIdle

Running == context_call.op # "abort"

\* a namespace item, or the member functions of a class definition: the
\* name is pushed before the nested items are lowered
EnterItem(name, kind) ==
    /\ Running
    /\ Len(ns_frames) < MaxDepth
    /\ ns_hierarchy' = push(ns_hierarchy, Namespace(name, kind))
    /\ ns_frames' = Append(ns_frames, ns_hierarchy)
    /\ context_call' = ContextCall("enter", ns_hierarchy, ns_hierarchy',
                                   FALSE, NoContextCall.key, 0)
    /\ UNCHANGED <<class_template_table, registrations>>
    /\ UNCHANGED <<stmtVars, templateVars, orderVars, parseVars, exprVars>>
    /\ UNCHANGED <<lowerVars, mergeVars, moduleVars, skipVars>>

\* the nested items are lowered: the name is popped
LeaveWith(popped) ==
    /\ ns_hierarchy' = popped.ns
    /\ context_call' = ContextCall("leave", ns_frames[Len(ns_frames)],
                                   popped.ns, popped.underflow,
                                   NoContextCall.key, 0)

LeaveItem ==
    /\ Running
    /\ ns_frames # <<>>
    /\ LeaveWith(pop(ns_hierarchy))
    /\ ns_frames' = SubSeq(ns_frames, 1, Len(ns_frames) - 1)
    /\ UNCHANGED <<class_template_table, registrations>>
    /\ UNCHANGED <<stmtVars, templateVars, orderVars, parseVars, exprVars>>
    /\ UNCHANGED <<lowerVars, mergeVars, moduleVars, skipVars>>

FoundWith(res) ==
    /\ ns_hierarchy' = res.popped.ns
    /\ context_call' = ContextCall("findDestructor", ns_hierarchy,
                                   res.popped.ns, res.popped.underflow,
                                   NoContextCall.key, res.destructor)

\* invokeDestructor looks the destructor of a class up
FindDestructor(class_name) ==
    /\ Running
    /\ FoundWith(findDestructorIn(ns_hierarchy, class_name,
                                  DefinedDestructors))
    /\ UNCHANGED <<ns_frames, class_template_table, registrations>>
    /\ UNCHANGED <<stmtVars, templateVars, orderVars, parseVars, exprVars>>
    /\ UNCHANGED <<lowerVars, mergeVars, moduleVars, skipVars>>

RegisteredWith(res, key) ==
    /\ class_template_table' = res.table
    /\ registrations' = Append(registrations, <<key, Len(registrations) + 1>>)
    /\ context_call' = ContextCall(IF res.aborted THEN "abort"
                                                  ELSE "register",
                                   ns_hierarchy, ns_hierarchy, FALSE, key,
                                   subscript(res.table, key))

RegisterWith(key, assertions) ==
    RegisteredWith(insert(class_template_table, key,
                          Len(registrations) + 1, assertions), key)

\* a class template definition: the AST is recorded under name, arity and
\* the current hierarchy, in a build with or without assertions
RegisterTemplate(name, arity) ==
    /\ Running
    /\ Len(registrations) < MaxTemplates
    /\ \E assertions \in BOOLEAN :
          RegisterWith(TemplateTableKey(name, arity, ns_hierarchy),
                       assertions)
    /\ UNCHANGED <<ns_hierarchy, ns_frames>>
    /\ UNCHANGED <<stmtVars, templateVars, orderVars, parseVars, exprVars>>
    /\ UNCHANGED <<lowerVars, mergeVars, moduleVars, skipVars>>

LookedUpWith(key) ==
    context_call' = ContextCall("lookup", ns_hierarchy, ns_hierarchy, FALSE,
                                key, subscript(class_template_table, key))

\* a reference to a class template: the registry is asked for name, arity
\* and the current hierarchy
LookupTemplate(name, arity) ==
    /\ Running
    /\ LookedUpWith(TemplateTableKey(name, arity, ns_hierarchy))
    /\ UNCHANGED <<ns_hierarchy, ns_frames, class_template_table,
                   registrations>>
    /\ UNCHANGED <<stmtVars, templateVars, orderVars, parseVars, exprVars>>
    /\ UNCHANGED <<lowerVars, mergeVars, moduleVars, skipVars>>

NextContext ==
    \/ \E name \in Identifiers, kind \in NamespaceKinds :
          EnterItem(name, kind)
    \/ LeaveItem
    \/ \E class_name \in Identifiers : FindDestructor(class_name)
    \/ \E name \in Identifiers, arity \in TemplateArities :
          RegisterTemplate(name, arity)
    \/ \E name \in Identifiers, arity \in TemplateArities :
          LookupTemplate(name, arity)

SpecContext == InitContext /\ [][NextContext]_vars

\* C25: when the lowering of a namespace or class item completes the
\* hierarchy is the one the item was entered with, and when findDestructor
\* returns it is the one findDestructor was called with, entry by entry; no
\* pop is applied to an empty stack.
C25_PushPopBalanced ==
    /\ context_call.op \in {"leave", "findDestructor"} =>
          /\ context_call.after = context_call.before
          /\ ~context_call.underflow
    /\ Len(ns_hierarchy) = Len(ns_frames)

\* a nested item was left, and a destructor was looked up inside an item
C25_Witness ==
    \/ context_call.op = "leave" /\ context_call.before # <<>>
    \/ context_call.op = "findDestructor" /\ context_call.before # <<>>

\* the value of the first registration made with exactly the key, 0 if none
RECURSIVE RegisteredUnder(_, _, _)
RegisteredUnder(regs, key, i) ==
    IF i > Len(regs) THEN 0
    ELSE IF regs[i][1] = key THEN regs[i][2]
    ELSE RegisteredUnder(regs, key, i + 1)

\* C29: keys whose namespace paths differ only in the kind of an entry are
\* distinct keys: a lookup finds what was registered under exactly its key
\* (name, arity and path with the kinds) and nothing if nothing was, and a
\* template registered under a key that was not registered before is held
\* by the registry under it.
C29_KindsDistinguishKeys ==
    /\ context_call.op = "lookup" =>
          context_call.found =
            RegisteredUnder(registrations, context_call.key, 1)
    /\ context_call.op \in {"register", "abort"} =>
          /\ context_call.found =
               RegisteredUnder(registrations, context_call.key, 1)
          /\ (context_call.op = "abort" =>
                \E i \in 1..(Len(registrations) - 1) :
                   registrations[i][1] = context_call.key)

=============================================================================
